---- MODULE Spec2Model ----
(***************************************************************************)
(* State-machine model of the Heirlock succession ledger                   *)
(* (apps/contracts/src/Heirlock.sol): liveness configuration, per-asset    *)
(* allocation rules with the basis-point cap, the claim loop with balance  *)
(* snapshots, and the identity claim path.                                 *)
(*                                                                         *)
(* Every external call is one atomic action (one EVM transaction): it      *)
(* either commits all its writes or reverts and leaves the contract state  *)
(* unchanged.  The history variable lastCall records what the last call    *)
(* was, what it saw on entry and how it ended.                             *)
(***************************************************************************)
EXTENDS Naturals, Sequences, FiniteSets, TLC

(* ------------------------------ bounds --------------------------------- *)

\* block.timestamp ranges over 1..MaxTime
MaxTime == 4
\* number of successful createWill / createIdentityWill calls explored
MaxWillOps == 2
\* the same, where only the allocation ledger is explored
MaxAllocOps == 3
\* longest (assets, shares) batch passed to createWill / createIdentityWill
MaxBatch == 2
\* the most that is credited to the vault, over all owners and assets
MaxVaultCredit == 4

(* ------------------------ program constants ---------------------------- *)

\* denominator of a BPS share, and the cap on a BPS amount and on a total
BPS_MAX == 10000

(* ------------------------------ domains -------------------------------- *)

Owners == {"o1", "o2"}
\* the owner of the runs that follow a single estate
OneOwner == {"o1"}
Beneficiaries == {"b1", "b2"}
Accounts == Owners \cup Beneficiaries
Assets == {"t1", "t2"}
ZeroAddress == "0x0"
\* the assets held in custody: the native asset, address(0), and one token
VaultAssets == {ZeroAddress, "t1"}

\* liveness durations passed to configureLiveness (0 is the invalid one)
Durations == {0, 1}

\* balances an owner's out-of-band token movements can leave
BalanceChoices == {50}

ShareTypes == {"NONE", "ABSOLUTE", "BPS"}

mkShare(t, n, c) == [shareType |-> t, shareAmount |-> n, claimed |-> c]

\* the Share structs callers pass in
ShareInputs ==
  { mkShare("ABSOLUTE", 0, FALSE),
    mkShare("ABSOLUTE", 100, FALSE),
    mkShare("BPS", 5000, TRUE),
    mkShare("BPS", 10000, FALSE),
    mkShare("BPS", 10001, FALSE),
    mkShare("NONE", 100, FALSE) }

mkIdentity(f, l, d) == [firstName |-> f, lastName |-> l, dateOfBirth |-> d]

EmptyIdentity == mkIdentity("", "", "")
IdA == mkIdentity("a", "bc", "d")
IdB == mkIdentity("ab", "c", "d")
IdC == mkIdentity("x", "y", "d")

\* identities passed to createIdentityWill (one of them invalid)
IdentityInputs == {IdA, IdB, mkIdentity("a", "", "d")}
\* identities an identity proof can disclose
DisclosedIdentities == {IdA, IdB, IdC}

\* keccak256(abi.encodePacked(firstName, lastName, dateOfBirth)): the packed
\* encoding is the plain concatenation of the three strings, and the hash is
\* taken to be injective on the concatenated bytes.
identityHash(id) == id.firstName \o id.lastName \o id.dateOfBirth

IdentityHashes == {identityHash(id) : id \in DisclosedIdentities}

Nullifiers == {1, 2}

Keys == Beneficiaries \cup IdentityHashes

Min(a, b) == IF a < b THEN a ELSE b

(* ---------------------------- storage types ---------------------------- *)

NoShare == mkShare("NONE", 0, FALSE)

\* a Will in its zero-initialised storage state
EmptyWill ==
  [ beneficiary     |-> ZeroAddress,
    beneficiaryType |-> "NONE",
    identity        |-> EmptyIdentity,
    assets          |-> << >>,
    assetToShare    |-> [a \in Assets |-> NoShare],
    assetToIndex    |-> [a \in Assets |-> 0],
    claimed         |-> FALSE,
    nullifier       |-> 0 ]

VARIABLES
  now,                     \* block.timestamp
  livenessCheckDuration,   \* [Owners -> Nat]
  lastCheckIn,             \* [Owners -> Nat]
  beneficiaryToWill,       \* [Owners -> [Beneficiaries -> Will]]
  identityToWill,          \* [Owners -> [IdentityHashes -> Will]]
  beneficiaries,           \* [Owners -> Seq(Beneficiaries)]
  identityHashes,          \* [Owners -> Seq(IdentityHashes)]
  assetTotalAllocatedBps,  \* [Owners -> [Assets -> Nat]]
  assetBalanceSnapshot,    \* [Owners -> [Assets -> Nat]]
  assetSnapshotTaken,      \* [Owners -> [Assets -> BOOLEAN]]
  nullifierUsed,           \* set of consumed nullifiers
  balance,                 \* ERC20 balances: [Assets -> [Accounts -> Nat]]
  approved,                \* ERC20 allowance owner -> ledger is non-zero
  willOps,                 \* successful will calls so far (bounded)
  paidTotal,               \* history: successful transfers per (owner, key, asset)
  paidSinceWrite,          \* history: the same, since the rule was last written
  vaultBalances,           \* HeirlockVault.balances: [Owners -> [VaultAssets -> Nat]]
  vaultCredited,           \* history: total credited to (owner, asset)
  vaultReleased,           \* history: total released from (owner, asset)
  vaultReceived,           \* history: what each account was paid by release, per asset
  tokenAnswer,             \* how each token answers transferFrom: [Assets -> Answers]
  verifyCall,              \* history: the last request of the verification endpoint
  lastCall                 \* history: the last external call

ledger == << livenessCheckDuration, lastCheckIn, beneficiaryToWill, identityToWill,
             beneficiaries, identityHashes, assetTotalAllocatedBps,
             assetBalanceSnapshot, assetSnapshotTaken, nullifierUsed >>

vars == << now, livenessCheckDuration, lastCheckIn, beneficiaryToWill, identityToWill,
           beneficiaries, identityHashes, assetTotalAllocatedBps,
           assetBalanceSnapshot, assetSnapshotTaken, nullifierUsed,
           balance, approved, willOps, paidTotal, paidSinceWrite, lastCall,
           vaultBalances, vaultCredited, vaultReleased, vaultReceived, tokenAnswer,
           verifyCall >>

\* the state of the custody contract and its history
vault == << vaultBalances, vaultCredited, vaultReleased, vaultReceived >>

\* the record kept of an external call that has just gone through (a reverted
\* call leaves no trace, and the record is cleared when time or the tokens
\* move on): what the call was and what it saw on entry (the time, the
\* owner's liveness configuration, the addressed record)
mkCall(op, caller, owner, key) ==
  [ op |-> op, caller |-> caller, owner |-> owner, key |-> key,
    time       |-> now,
    duration   |-> IF owner \in Owners THEN livenessCheckDuration[owner] ELSE 0,
    checkedIn  |-> IF owner \in Owners THEN lastCheckIn[owner] ELSE 0,
    recordType |-> "NONE",
    recordDone |-> FALSE,
    nullifier  |-> 0,
    arg        |-> 0,
    err        |-> "none",
    event      |-> "",
    legs       |-> << >> ]

NoCall == mkCall("none", ZeroAddress, ZeroAddress, ZeroAddress)

Init ==
  /\ now = 1
  /\ livenessCheckDuration = [o \in Owners |-> 0]
  /\ lastCheckIn = [o \in Owners |-> 0]
  /\ beneficiaryToWill = [o \in Owners |-> [b \in Beneficiaries |-> EmptyWill]]
  /\ identityToWill = [o \in Owners |-> [h \in IdentityHashes |-> EmptyWill]]
  /\ beneficiaries = [o \in Owners |-> << >>]
  /\ identityHashes = [o \in Owners |-> << >>]
  /\ assetTotalAllocatedBps = [o \in Owners |-> [a \in Assets |-> 0]]
  /\ assetBalanceSnapshot = [o \in Owners |-> [a \in Assets |-> 0]]
  /\ assetSnapshotTaken = [o \in Owners |-> [a \in Assets |-> FALSE]]
  /\ nullifierUsed = {}
  /\ balance = [a \in Assets |-> [x \in Accounts |->
                  IF x \in Owners THEN 1000 ELSE 0]]
  /\ approved = [a \in Assets |-> [o \in Owners |-> FALSE]]
  /\ willOps = 0
  /\ paidTotal = [o \in Owners |-> [k \in Keys |-> [a \in Assets |-> 0]]]
  /\ paidSinceWrite = [o \in Owners |-> [k \in Keys |-> [a \in Assets |-> 0]]]
  /\ lastCall = NoCall
  /\ vaultBalances = [o \in Owners |-> [a \in VaultAssets |-> 0]]
  /\ vaultCredited = [o \in Owners |-> [a \in VaultAssets |-> 0]]
  /\ vaultReleased = [o \in Owners |-> [a \in VaultAssets |-> 0]]
  /\ vaultReceived = [x \in Accounts |-> [a \in VaultAssets |-> 0]]
  /\ tokenAnswer = [a \in Assets |-> "true"]
  /\ verifyCall = [op |-> "none"]

(* --------------------------- Liveness Tracker -------------------------- *)

\* isOwnerAlive with the boundary excluded
isOwnerAliveStrict(o) ==
  IF livenessCheckDuration[o] = 0 THEN TRUE
  ELSE lastCheckIn[o] + livenessCheckDuration[o] > now

isOwnerAlive(o) ==
  IF livenessCheckDuration[o] = 0 THEN TRUE
  ELSE lastCheckIn[o] + livenessCheckDuration[o] >= now

\* the eligibility test with the boundary excluded
ownerStillAliveStrict(o) == lastCheckIn[o] + livenessCheckDuration[o] > now

\* the eligibility test at the head of claim and claimWithIdentity
ownerStillAlive(o) == lastCheckIn[o] + livenessCheckDuration[o] >= now

\* block.timestamp advances
Tick ==
  /\ now < MaxTime
  /\ now' = now + 1
  /\ lastCall' = NoCall
  /\ UNCHANGED << vault, tokenAnswer, verifyCall, ledger, balance, approved, willOps, paidTotal, paidSinceWrite >>

\* a configuration that sets the window and keeps the last check-in
configureLivenessWindowOnly(o, d) ==
  /\ livenessCheckDuration' = [livenessCheckDuration EXCEPT ![o] = d]
  /\ lastCheckIn' = lastCheckIn

\* the writes of a successful configureLiveness
configureLivenessWrites(o, d) ==
  /\ livenessCheckDuration' = [livenessCheckDuration EXCEPT ![o] = d]
  /\ lastCheckIn' = [lastCheckIn EXCEPT ![o] = now]

\* the revert reason of configureLiveness(_duration)
configureLivenessErr(d) == IF d = 0 THEN "InvalidDuration" ELSE "none"

ConfigureLiveness(o, d) ==
  /\ IF configureLivenessErr(d) /= "none"
     THEN UNCHANGED << livenessCheckDuration, lastCheckIn, lastCall >>
     ELSE /\ configureLivenessWrites(o, d)
          /\ lastCall' = [mkCall("configureLiveness", o, o, ZeroAddress) EXCEPT !.arg = d]
  /\ UNCHANGED << vault, tokenAnswer, verifyCall, now, beneficiaryToWill, identityToWill, beneficiaries, identityHashes,
                  assetTotalAllocatedBps, assetBalanceSnapshot, assetSnapshotTaken,
                  nullifierUsed, balance, approved, willOps, paidTotal, paidSinceWrite >>

\* a configuration test that finds every owner configured
notConfiguredNever(o) == FALSE

\* the test behind NotConfigured in checkIn, createWill and createIdentityWill
notConfigured(o) == livenessCheckDuration[o] = 0

\* the revert reason of checkIn() called by o
checkInErr(o) == IF notConfigured(o) THEN "NotConfigured" ELSE "none"

\* a checkIn that leaves the check-in time where it was
checkInWritesNothing(o) == lastCheckIn' = lastCheckIn

\* the write of a successful checkIn
checkInWrites(o) == lastCheckIn' = [lastCheckIn EXCEPT ![o] = now]

CheckIn(o) ==
  /\ IF checkInErr(o) /= "none"
     THEN UNCHANGED << lastCheckIn, lastCall >>
     ELSE /\ checkInWrites(o)
          /\ lastCall' = mkCall("checkIn", o, o, ZeroAddress)
  /\ UNCHANGED << vault, tokenAnswer, verifyCall, now, livenessCheckDuration, beneficiaryToWill, identityToWill,
                  beneficiaries, identityHashes, assetTotalAllocatedBps,
                  assetBalanceSnapshot, assetSnapshotTaken, nullifierUsed, balance,
                  approved, willOps, paidTotal, paidSinceWrite >>

(* ------------------------------- tokens -------------------------------- *)

\* the owner grants (v = TRUE) or revokes (v = FALSE) the ledger's allowance
Approve(o, a, v) ==
  /\ approved[a][o] /= v
  /\ approved' = [approved EXCEPT ![a][o] = v]
  /\ lastCall' = NoCall
  /\ UNCHANGED << vault, tokenAnswer, verifyCall, now, ledger, balance, willOps, paidTotal, paidSinceWrite >>

\* the owner's holdings change outside the ledger (received or sent away)
BalanceChange(o, a, v) ==
  /\ balance[a][o] /= v
  /\ balance' = [balance EXCEPT ![a][o] = v]
  /\ lastCall' = NoCall
  /\ UNCHANGED << vault, tokenAnswer, verifyCall, now, ledger, approved, willOps, paidTotal, paidSinceWrite >>

\* ERC20.transferFrom(from, to, amount) called by the ledger: TRUE when the
\* token moves the amount, FALSE when it reverts or declines
tokenTransferFrom(bal, a, from, amount) ==
  approved[a][from] /\ bal[a][from] >= amount

\* the ways a token answers transferFrom: the ERC20 of the tests moves the
\* amount and returns true; a token without a return value moves it and
\* returns nothing; one moves it and returns another non-zero word; the
\* failing token of the tests returns false and moves nothing; a contract that
\* is no token returns two words and moves nothing; a stopped token reverts
Answers == {"true", "empty", "word", "false", "long", "revert"}

\* what the low-level call of transferFrom comes back with: whether it
\* reverted, the size of the returned data, its first word, and whether the
\* token moved the amount. The ERC20 of the tests reverts with a 100-byte
\* error when the allowance or the balance is short.
tokenCall(bal, a, from, amount) ==
  LET ans == tokenAnswer[a] IN
  IF ans = "false" THEN [reverted |-> FALSE, size |-> 32, word |-> 0, moved |-> FALSE]
  ELSE IF ans = "long" THEN [reverted |-> FALSE, size |-> 64, word |-> 1, moved |-> FALSE]
  ELSE IF ans = "revert" THEN [reverted |-> TRUE, size |-> 0, word |-> 0, moved |-> FALSE]
  ELSE IF ~tokenTransferFrom(bal, a, from, amount)
  THEN [reverted |-> TRUE, size |-> 100, word |-> 0, moved |-> FALSE]
  ELSE IF ans = "empty" THEN [reverted |-> FALSE, size |-> 0, word |-> 0, moved |-> TRUE]
  ELSE IF ans = "word" THEN [reverted |-> FALSE, size |-> 32, word |-> 2, moved |-> TRUE]
  ELSE [reverted |-> FALSE, size |-> 32, word |-> 1, moved |-> TRUE]

\* no call was made
NoReply == [reverted |-> FALSE, size |-> 0, word |-> 0, moved |-> FALSE]

\* the token is replaced by one that answers differently (setFailure of the
\* failing token of the tests)
SetAnswer(a, s) ==
  /\ tokenAnswer[a] /= s
  /\ tokenAnswer' = [tokenAnswer EXCEPT ![a] = s]
  /\ lastCall' = NoCall
  /\ UNCHANGED << vault, verifyCall, now, ledger, balance, approved, willOps, paidTotal,
                  paidSinceWrite >>

\* a transferFrom that credits the receiver and leaves the sender's balance
tokenMoveCreditOnly(bal, a, from, to, amount) == [bal EXCEPT ![a][to] = @ + amount]

\* the balances after a transferFrom that went through
tokenMove(bal, a, from, to, amount) ==
  IF from = to THEN bal
  ELSE [bal EXCEPT ![a][from] = @ - amount, ![a][to] = @ + amount]

(* -------------------------- Allocation Ledger -------------------------- *)

\* st = [will, bps, err, written]: the Will and the owner's
\* assetTotalAllocatedBps as the loop leaves them, the revert reason if any,
\* and the assets whose rule was written or deleted
removeAssetFromWill(st, asset) ==
  LET share == st.will.assetToShare[asset]
      sub   == IF share.shareType = "BPS" /\ share.shareAmount > 0
               THEN share.shareAmount ELSE 0
      index == st.will.assetToIndex[asset]
      n     == Len(st.will.assets)
  IN IF st.bps[asset] < sub \/ n = 0 THEN [st EXCEPT !.err = "Panic"]
     ELSE LET lastIndex == n - 1
              lastAsset == st.will.assets[lastIndex + 1]
              moved  == IF index /= lastIndex
                        THEN [st.will.assets EXCEPT ![index + 1] = lastAsset]
                        ELSE st.will.assets
              idx1   == IF index /= lastIndex
                        THEN [st.will.assetToIndex EXCEPT ![lastAsset] = index]
                        ELSE st.will.assetToIndex
          IN [st EXCEPT
                !.bps = [@ EXCEPT ![asset] = @ - sub],
                !.will = [@ EXCEPT
                   !.assets = SubSeq(moved, 1, lastIndex),
                   !.assetToIndex = [idx1 EXCEPT ![asset] = 0],
                   !.assetToShare = [@ EXCEPT ![asset] = NoShare]],
                !.written = @ \cup {asset}]

\* a stored Share that starts closed
newStoredShareClosed(newShare) == mkShare(newShare.shareType, newShare.shareAmount, TRUE)

\* a stored Share that keeps the claimed flag the caller passed
newStoredShareKeepFlag(newShare) == newShare

\* the Share the loop stores for a rule: the caller's type and amount, with
\* the claimed flag cleared
newStoredShare(newShare) == mkShare(newShare.shareType, newShare.shareAmount, FALSE)

\* a deletion test that lets a BPS pair of amount 0 through to the store
zeroAmountUnlessBps(newShare) == newShare.shareType /= "BPS" /\ newShare.shareAmount = 0

\* the test that sends a pair down the deletion path
zeroAmount(newShare) == newShare.shareAmount = 0

\* the range test at the head of the loop
invalidShareAmount(newShare) ==
  newShare.shareType = "BPS" /\ newShare.shareAmount > BPS_MAX

\* one iteration of the loop of _processAssets
processAsset(st, asset, newShare) ==
  IF invalidShareAmount(newShare)
  THEN [st EXCEPT !.err = "InvalidShareAmount"]
  ELSE
    LET existingShare == st.will.assetToShare[asset]
        assetExists == existingShare.shareType /= "NONE"
        sub == IF assetExists /\ existingShare.shareType = "BPS"
                  /\ existingShare.shareAmount > 0
               THEN existingShare.shareAmount ELSE 0
    IN IF st.bps[asset] < sub THEN [st EXCEPT !.err = "Panic"]
       ELSE
         LET st1 == [st EXCEPT !.bps = [@ EXCEPT ![asset] = @ - sub]]
         IN IF zeroAmount(newShare)
            THEN IF assetExists THEN removeAssetFromWill(st1, asset) ELSE st1
            ELSE
              LET newTotal == st1.bps[asset] + newShare.shareAmount
              IN IF newShare.shareType = "BPS" /\ newTotal > BPS_MAX
                 THEN [st1 EXCEPT !.err = "BpsExceeded"]
                 ELSE
                   LET st2 == IF newShare.shareType = "BPS"
                              THEN [st1 EXCEPT !.bps = [@ EXCEPT ![asset] = newTotal]]
                              ELSE st1
                       st3 == IF ~assetExists
                              THEN [st2 EXCEPT
                                      !.will = [@ EXCEPT
                                         !.assetToIndex = [@ EXCEPT ![asset] = Len(st2.will.assets)],
                                         !.assets = Append(@, asset)]]
                              ELSE st2
                   IN [st3 EXCEPT
                         !.will = [@ EXCEPT !.assetToShare = [@ EXCEPT ![asset] =
                                     newStoredShare(newShare)]],
                         !.written = @ \cup {asset}]

RECURSIVE processAssetsFrom(_, _, _, _)
processAssetsFrom(st, assets, shares, i) ==
  IF i > Len(assets) \/ st.err /= "none" THEN st
  ELSE processAssetsFrom(processAsset(st, assets[i], shares[i]), assets, shares, i + 1)

processAssets(will, bps, assets, shares) ==
  processAssetsFrom([will |-> will, bps |-> bps, err |-> "none", written |-> {}],
                    assets, shares, 1)

\* the first asset of the call without allowance, or ZeroAddress
RECURSIVE firstUnapproved(_, _, _)
firstUnapproved(o, assets, i) ==
  IF i > Len(assets) THEN ZeroAddress
  ELSE IF ~approved[assets[i]][o] THEN assets[i]
  ELSE firstUnapproved(o, assets, i + 1)

\* an allowance check that looks at the first asset of the call only
validateApprovalsFirstOnly(o, assets) == assets = << >> \/ approved[assets[1]][o]

validateApprovals(o, assets) == firstUnapproved(o, assets, 1) = ZeroAddress

\* a transaction that undoes its writes only when the error comes before the
\* loop over the pairs
revertsBeforeLoopOnly(err) ==
  err \in {"NotBeneficiary", "ArrayLengthMismatch", "InvalidIdentityData",
           "NotConfigured", "NoApproval"}

\* a call that raises an error reverts: the transaction undoes all its writes
reverts(err) == err /= "none"

\* the history counter of the rules a successful will call wrote is reset
resetWritten(o, key, written) ==
  paidSinceWrite' = [paidSinceWrite EXCEPT ![o][key] =
                       [a \in Assets |-> IF a \in written THEN 0 ELSE @[a]]]

\* tracked totals kept in one table for all owners
storeTotalsShared(o, bps) == [x \in Owners |-> bps]

\* the tracked totals live in the caller's own OwnerConfig
storeTotals(o, bps) == [assetTotalAllocatedBps EXCEPT ![o] = bps]

\* a record counted as new whenever it holds no asset
isNewBeneficiaryWhenEmpty(will) == will.assets = << >>

\* createWill: the record of the beneficiary address has not been registered
isNewBeneficiary(will) == will.beneficiaryType = "NONE"

\* createIdentityWill: the record of the hash has not been registered
isNewIdentity(will) == will.beneficiaryType /= "IDENTITY_VERIFIED"

\* the revert reason of createWill(_beneficiary, _assets, _shares) called by
\* o in the current state, "none" when the call goes through
createWillRun(o, b, assets, shares) ==
  LET will == beneficiaryToWill[o][b]
      will1 == IF isNewBeneficiary(will)
               THEN [will EXCEPT !.beneficiary = b, !.beneficiaryType = "ADDRESS_ONLY"]
               ELSE will
  IN processAssets(will1, assetTotalAllocatedBps[o], assets, shares)

createWillErr(o, b, assets, shares) ==
  IF b = ZeroAddress THEN "NotBeneficiary"
  ELSE IF Len(assets) /= Len(shares) THEN "ArrayLengthMismatch"
  ELSE IF notConfigured(o) THEN "NotConfigured"
  ELSE IF ~validateApprovals(o, assets) THEN "NoApproval"
  ELSE createWillRun(o, b, assets, shares).err

CreateWill(o, b, assets, shares) ==
  IF reverts(createWillErr(o, b, assets, shares)) THEN UNCHANGED vars
  ELSE
    LET isNew == isNewBeneficiary(beneficiaryToWill[o][b])
        st == createWillRun(o, b, assets, shares)
    IN /\ willOps' = willOps + 1
       /\ beneficiaryToWill' = [beneficiaryToWill EXCEPT ![o][b] = st.will]
       /\ beneficiaries' = IF isNew
                           THEN [beneficiaries EXCEPT ![o] = Append(@, b)]
                           ELSE beneficiaries
       /\ assetTotalAllocatedBps' = storeTotals(o, st.bps)
       /\ resetWritten(o, b, st.written)
       /\ lastCall' = [mkCall("createWill", o, o, b) EXCEPT
                         !.err = createWillErr(o, b, assets, shares),
                         !.recordType = beneficiaryToWill[o][b].beneficiaryType,
                         !.event = IF isNew THEN "WillCreated" ELSE "WillUpdated"]
       /\ UNCHANGED << vault, tokenAnswer, verifyCall, now, livenessCheckDuration, lastCheckIn, identityToWill,
                       identityHashes, assetBalanceSnapshot, assetSnapshotTaken,
                       nullifierUsed, balance, approved, paidTotal >>

\* an update of an identity record that clears its completion flag
createIdentityWillRunReset(o, id, assets, shares) ==
  LET will == identityToWill[o][identityHash(id)]
      will1 == IF isNewIdentity(will)
               THEN [will EXCEPT !.beneficiary = ZeroAddress,
                                 !.beneficiaryType = "IDENTITY_VERIFIED",
                                 !.identity = id]
               ELSE will
  IN processAssets([will1 EXCEPT !.claimed = FALSE], assetTotalAllocatedBps[o],
                   assets, shares)

\* the record and the totals createIdentityWill works on: the registration of
\* a new identity record, then the loop over the pairs
createIdentityWillRun(o, id, assets, shares) ==
  LET will == identityToWill[o][identityHash(id)]
      will1 == IF isNewIdentity(will)
               THEN [will EXCEPT !.beneficiary = ZeroAddress,
                                 !.beneficiaryType = "IDENTITY_VERIFIED",
                                 !.identity = id]
               ELSE will
  IN processAssets(will1, assetTotalAllocatedBps[o], assets, shares)

createIdentityWillErr(o, id, assets, shares) ==
  IF Len(assets) /= Len(shares) THEN "ArrayLengthMismatch"
  ELSE IF id.firstName = "" \/ id.lastName = "" \/ id.dateOfBirth = ""
  THEN "InvalidIdentityData"
  ELSE IF notConfigured(o) THEN "NotConfigured"
  ELSE IF ~validateApprovals(o, assets) THEN "NoApproval"
  ELSE createIdentityWillRun(o, id, assets, shares).err

CreateIdentityWill(o, id, assets, shares) ==
  IF reverts(createIdentityWillErr(o, id, assets, shares)) THEN UNCHANGED vars
  ELSE
    LET h == identityHash(id)
        isNew == isNewIdentity(identityToWill[o][h])
        st == createIdentityWillRun(o, id, assets, shares)
    IN /\ willOps' = willOps + 1
       /\ identityToWill' = [identityToWill EXCEPT ![o][h] = st.will]
       /\ identityHashes' = IF isNew
                            THEN [identityHashes EXCEPT ![o] = Append(@, h)]
                            ELSE identityHashes
       /\ assetTotalAllocatedBps' = storeTotals(o, st.bps)
       /\ resetWritten(o, h, st.written)
       /\ lastCall' = [mkCall("createIdentityWill", o, o, h) EXCEPT
                         !.err = createIdentityWillErr(o, id, assets, shares),
                         !.recordType = identityToWill[o][h].beneficiaryType,
                         !.event = IF isNew THEN "IdentityWillCreated"
                                   ELSE "IdentityWillUpdated"]
       /\ UNCHANGED << vault, tokenAnswer, verifyCall, now, livenessCheckDuration, lastCheckIn, beneficiaryToWill,
                       beneficiaries, assetBalanceSnapshot, assetSnapshotTaken,
                       nullifierUsed, balance, approved, paidTotal >>

(* ----------------------------- Claim Engine ---------------------------- *)

\* the amount computed from the live balance, snapshot or not
calculateAmountLive(owner, asset, share, snap, taken, bal) ==
  IF share.shareType = "ABSOLUTE" THEN share.shareAmount
  ELSE IF share.shareType = "BPS"
  THEN (bal[asset][owner] * share.shareAmount) \div BPS_MAX
  ELSE 0

calculateAmount(owner, asset, share, snap, taken, bal) ==
  IF share.shareType = "ABSOLUTE" THEN share.shareAmount
  ELSE IF share.shareType = "BPS"
  THEN LET baseBalance == IF taken[asset] THEN snap[asset] ELSE bal[asset][owner]
       IN (baseBalance * share.shareAmount) \div BPS_MAX
  ELSE 0

\* a snapshot step that overwrites a snapshot already taken
takeSnapshotAlways(cs, owner, asset) ==
  [cs EXCEPT !.snap = [@ EXCEPT ![asset] = cs.bal[asset][owner]],
             !.taken = [@ EXCEPT ![asset] = TRUE]]

\* the snapshot step of the claim loop: cs = [will, snap, taken, bal, legs]
takeSnapshot(cs, owner, asset) ==
  IF ~cs.taken[asset]
  THEN [cs EXCEPT !.snap = [@ EXCEPT ![asset] = cs.bal[asset][owner]],
                  !.taken = [@ EXCEPT ![asset] = TRUE]]
  ELSE cs

\* a loop that leaves the flag of a closed leg alone
markClaimedNoop(will, asset) == will

\* what the loop does to a rule whose leg is closed
markClaimed(will, asset) ==
  [will EXCEPT !.assetToShare = [@ EXCEPT ![asset] = [@ EXCEPT !.claimed = TRUE]]]

\* a loop that hands every amount to the transfer executor
nothingToTransferNever(amount) == FALSE

\* the test that closes a leg without a transfer (amount == 0, transferAmount == 0)
nothingToTransfer(amount) == amount = 0

\* a transfer of the computed amount, whatever the owner holds
clampAmountNever(amount, currentBalance) == amount

\* the amount handed to the transfer executor
clampAmount(amount, currentBalance) ==
  IF amount > currentBalance THEN currentBalance ELSE amount

\* an executor that takes every call that did not revert for a success
returnOkUnlessReverted(reply) == ~reply.reverted

\* the reading of the call's outcome in _safeTransferFrom: the call's success
\* flag, then the switch on returndatasize()
returnOk(reply) ==
  IF ~reply.reverted
  THEN CASE reply.size = 0 -> TRUE
         [] reply.size = 32 -> reply.word /= 0
         [] OTHER -> FALSE
  ELSE FALSE

\* _safeTransferFrom: the low-level call and the reading of its outcome
safeTransferFrom(bal, asset, from, to, amount) ==
  returnOk(tokenCall(bal, asset, from, amount))

mkLeg(asset, share, result, amount, transferAmount) ==
  [ asset |-> asset, shareType |-> share.shareType, shareAmount |-> share.shareAmount,
    result |-> result, amount |-> amount, transferAmount |-> transferAmount,
    reply |-> NoReply ]

\* a loop that passes over no rule
alreadyClaimedNever(share) == FALSE

\* the test that makes the loop pass over a rule
alreadyClaimed(share) == share.claimed

\* one iteration of the loop of _executeClaim
claimAsset(cs, owner, claimer, asset) ==
  LET share == cs.will.assetToShare[asset] IN
  IF alreadyClaimed(share)
  THEN [cs EXCEPT !.legs = Append(@, mkLeg(asset, share, "skipped", 0, 0))]
  ELSE
    LET cs1 == takeSnapshot(cs, owner, asset)
        amount == calculateAmount(owner, asset, share, cs1.snap, cs1.taken, cs1.bal)
    IN IF nothingToTransfer(amount)
       THEN [cs1 EXCEPT !.will = markClaimed(@, asset),
                        !.legs = Append(@, mkLeg(asset, share, "zero", 0, 0))]
       ELSE
         LET currentBalance == cs1.bal[asset][owner]
             transferAmount == clampAmount(amount, currentBalance)
         IN IF nothingToTransfer(transferAmount)
            THEN [cs1 EXCEPT !.will = markClaimed(@, asset),
                             !.legs = Append(@, mkLeg(asset, share, "clampedZero", amount, 0))]
            ELSE IF safeTransferFrom(cs1.bal, asset, owner, claimer, transferAmount)
            THEN [cs1 EXCEPT !.will = markClaimed(@, asset),
                             !.bal = tokenMove(@, asset, owner, claimer, transferAmount),
                             !.legs = Append(@, [mkLeg(asset, share, "ok", amount, transferAmount)
                                                   EXCEPT !.reply = tokenCall(cs1.bal, asset, owner, transferAmount)])]
            ELSE [cs1 EXCEPT !.legs = Append(@, [mkLeg(asset, share, "failed", amount, transferAmount)
                                                   EXCEPT !.reply = tokenCall(cs1.bal, asset, owner, transferAmount)])]

\* a loop that gives up at the first transfer that fails
RECURSIVE claimAssetsFromUntilFailure(_, _, _, _, _)
claimAssetsFromUntilFailure(cs, owner, claimer, assets, i) ==
  IF i > Len(assets) THEN cs
  ELSE IF cs.legs /= << >> /\ cs.legs[Len(cs.legs)].result = "failed" THEN cs
  ELSE claimAssetsFromUntilFailure(claimAsset(cs, owner, claimer, assets[i]),
                                   owner, claimer, assets, i + 1)

RECURSIVE claimAssetsFrom(_, _, _, _, _)
claimAssetsFrom(cs, owner, claimer, assets, i) ==
  IF i > Len(assets) THEN cs
  ELSE claimAssetsFrom(claimAsset(cs, owner, claimer, assets[i]), owner, claimer, assets, i + 1)

\* _executeClaim: the loop runs over the asset list as it is on entry
executeClaim(owner, will, snap, taken, bal, claimer) ==
  claimAssetsFrom([will |-> will, snap |-> snap, taken |-> taken, bal |-> bal, legs |-> << >>],
                  owner, claimer, will.assets, 1)

\* number of legs of a call that paid the asset
okLegs(legs, asset) ==
  Cardinality({i \in 1..Len(legs) : legs[i].asset = asset /\ legs[i].result = "ok"})

\* the history counters after a claim (they stop counting at 2)
countPaid(count, o, key, legs) ==
  [count EXCEPT ![o][key] = [a \in Assets |-> Min(2, @[a] + okLegs(legs, a))]]

\* a record test that lets every caller through
notBeneficiaryNever(will) == FALSE

\* the record test of claim: no will was created for the caller
notBeneficiary(will) == will.beneficiaryType = "NONE"

\* the revert reason of claim(_owner) called by b in the current state
claimErrLivenessOnly(b, o) == IF ownerStillAlive(o) THEN "OwnerStillAlive" ELSE "none"

claimErr(b, o) ==
  IF ownerStillAlive(o) THEN "OwnerStillAlive"
  ELSE IF notBeneficiary(beneficiaryToWill[o][b]) THEN "NotBeneficiary"
  ELSE "none"

\* claim(_owner) called by b
Claim(b, o) ==
  IF claimErr(b, o) /= "none" THEN UNCHANGED vars
  ELSE
    LET will == beneficiaryToWill[o][b]
        cs == executeClaim(o, will, assetBalanceSnapshot[o], assetSnapshotTaken[o], balance, b)
    IN /\ beneficiaryToWill' = [beneficiaryToWill EXCEPT ![o][b] = cs.will]
       /\ assetBalanceSnapshot' = [assetBalanceSnapshot EXCEPT ![o] = cs.snap]
       /\ assetSnapshotTaken' = [assetSnapshotTaken EXCEPT ![o] = cs.taken]
       /\ balance' = cs.bal
       /\ paidTotal' = countPaid(paidTotal, o, b, cs.legs)
       /\ paidSinceWrite' = countPaid(paidSinceWrite, o, b, cs.legs)
       /\ lastCall' = [mkCall("claim", b, o, b) EXCEPT
                         !.recordType = will.beneficiaryType, !.legs = cs.legs]
       /\ UNCHANGED << vault, tokenAnswer, verifyCall, now, livenessCheckDuration, lastCheckIn, identityToWill,
                       beneficiaries, identityHashes, assetTotalAllocatedBps,
                       nullifierUsed, approved, willOps >>

(* ------------------------ Identity Claim Adapter ----------------------- *)

claimWithIdentityErr(o, h) ==
  IF ownerStillAlive(o) THEN "OwnerStillAlive"
  ELSE IF identityToWill[o][h].beneficiaryType /= "IDENTITY_VERIFIED" THEN "NotBeneficiary"
  ELSE IF identityToWill[o][h].claimed THEN "IdentityAlreadyClaimed"
  ELSE "none"

\* claimWithIdentity(_owner, _identityHash, _proof) called by c: the three
\* checks, then two local values are computed and the function returns; it
\* writes nothing and calls nothing
ClaimWithIdentity(c, o, h) ==
  IF claimWithIdentityErr(o, h) /= "none" THEN UNCHANGED vars
  ELSE
    /\ lastCall' = [mkCall("claimWithIdentity", c, o, h) EXCEPT
                      !.recordType = identityToWill[o][h].beneficiaryType,
                      !.recordDone = identityToWill[o][h].claimed]
    /\ UNCHANGED << vault, tokenAnswer, verifyCall, now, ledger, balance, approved, willOps, paidTotal, paidSinceWrite >>

\* a field comparison that accepts every disclosure
verifyIdentityMatchAlways(expected, disclosed) == TRUE

verifyIdentityMatch(expected, disclosed) ==
  /\ expected.firstName = disclosed.firstName
  /\ expected.lastName = disclosed.lastName
  /\ expected.dateOfBirth = disclosed.dateOfBirth

\* a registry test that finds no nullifier spent
nullifierSpentNever(nullifier) == FALSE

\* the registry test at the head of the hook
nullifierSpent(nullifier) == nullifier \in nullifierUsed

\* the revert reason of customVerificationHook(output, userData)
customVerificationHookErr(o, expectedIdentityHash, disclosed, nullifier) ==
  IF nullifierSpent(nullifier) THEN "NullifierAlreadyUsed"
  ELSE IF identityHash(disclosed) /= expectedIdentityHash THEN "IdentityMismatch"
  ELSE IF ~verifyIdentityMatch(identityToWill[o][expectedIdentityHash].identity, disclosed)
  THEN "IdentityMismatch"
  ELSE "none"

\* customVerificationHook(output, userData): run by the inherited verification
\* root once the hub has accepted a proof; userData = (owner, expectedIdentityHash)
\* is chosen by whoever submitted the proof, output = the disclosed identity,
\* the proof's nullifier and the submitter's identifier
CustomVerificationHook(o, expectedIdentityHash, disclosed, nullifier, claimer) ==
  IF customVerificationHookErr(o, expectedIdentityHash, disclosed, nullifier) /= "none"
  THEN UNCHANGED vars
  ELSE
    LET will == identityToWill[o][expectedIdentityHash]
        will1 == [will EXCEPT !.claimed = TRUE, !.nullifier = nullifier]
        cs == executeClaim(o, will1, assetBalanceSnapshot[o], assetSnapshotTaken[o],
                           balance, claimer)
    IN /\ nullifierUsed' = nullifierUsed \cup {nullifier}
       /\ identityToWill' = [identityToWill EXCEPT ![o][expectedIdentityHash] = cs.will]
       /\ assetBalanceSnapshot' = [assetBalanceSnapshot EXCEPT ![o] = cs.snap]
       /\ assetSnapshotTaken' = [assetSnapshotTaken EXCEPT ![o] = cs.taken]
       /\ balance' = cs.bal
       /\ paidTotal' = countPaid(paidTotal, o, expectedIdentityHash, cs.legs)
       /\ paidSinceWrite' = countPaid(paidSinceWrite, o, expectedIdentityHash, cs.legs)
       /\ lastCall' = [mkCall("customVerificationHook", claimer, o, expectedIdentityHash)
                         EXCEPT !.recordType = will.beneficiaryType,
                                !.recordDone = will.claimed,
                                !.nullifier = nullifier,
                                !.legs = cs.legs]
       /\ UNCHANGED << vault, tokenAnswer, verifyCall, now, livenessCheckDuration, lastCheckIn, beneficiaryToWill,
                       beneficiaries, identityHashes, assetTotalAllocatedBps,
                       approved, willOps >>

(* ----------------------------- HeirlockVault --------------------------- *)

\* the callers of the vault: its two controllers and anybody else
VaultCallers == {"heirlock", "executor", "stranger"}

\* amounts and msg.value of the calls
VaultAmounts == {0, 1, 2}

\* the variables of the succession ledger and of the tokens
outsideVault ==
  << now, ledger, balance, approved, willOps, paidTotal, paidSinceWrite, lastCall,
     tokenAnswer, verifyCall >>

\* modifier onlyController
onlyController(caller) == caller \in {"heirlock", "executor"}

\* a credit that always lands on the native asset of the owner
creditNativeSlot(bals, owner, asset, amount) ==
  [bals EXCEPT ![owner][ZeroAddress] = @ + amount]

\* _credit(owner, asset, amount)
credit(bals, owner, asset, amount) == [bals EXCEPT ![owner][asset] = @ + amount]

\* everything credited so far
RECURSIVE sumOver(_, _)
sumOver(f, S) ==
  IF S = {} THEN 0
  ELSE LET x == CHOOSE y \in S : TRUE IN f[x] + sumOver(f, S \ {x})

totalCredited ==
  sumOver([p \in Owners \X VaultAssets |-> vaultCredited[p[1]][p[2]]],
          Owners \X VaultAssets)

\* what every successful deposit or bridge call does
creditWrites(owner, asset, amount) ==
  /\ totalCredited + amount <= MaxVaultCredit
  /\ vaultBalances' = credit(vaultBalances, owner, asset, amount)
  /\ vaultCredited' = [vaultCredited EXCEPT ![owner][asset] = @ + amount]
  /\ UNCHANGED << vaultReleased, vaultReceived, outsideVault >>

\* depositNative(owner) with msg.value = value, by anybody
depositNativeErr(owner, value) ==
  IF owner = ZeroAddress THEN "InvalidAddress"
  ELSE IF value = 0 THEN "InvalidAmount"
  ELSE "none"

DepositNative(owner, value) ==
  IF depositNativeErr(owner, value) /= "none" THEN UNCHANGED vars
  ELSE creditWrites(owner, ZeroAddress, value)

\* depositToken(owner, token, amount) by anybody; pulled is the outcome of the
\* safeTransferFrom of the amount from the caller to the vault
depositTokenErr(owner, token, amount, pulled) ==
  IF owner = ZeroAddress \/ token = ZeroAddress THEN "InvalidAddress"
  ELSE IF amount = 0 THEN "InvalidAmount"
  ELSE IF ~pulled THEN "SafeERC20FailedOperation"
  ELSE "none"

DepositToken(owner, token, amount, pulled) ==
  IF depositTokenErr(owner, token, amount, pulled) /= "none" THEN UNCHANGED vars
  ELSE creditWrites(owner, token, amount)

\* bridgeNative(owner) with msg.value = value
bridgeNativeErr(caller, owner, value) ==
  IF ~onlyController(caller) THEN "NotController"
  ELSE IF owner = ZeroAddress THEN "InvalidAddress"
  ELSE IF value = 0 THEN "InvalidAmount"
  ELSE "none"

BridgeNative(caller, owner, value) ==
  IF bridgeNativeErr(caller, owner, value) /= "none" THEN UNCHANGED vars
  ELSE creditWrites(owner, ZeroAddress, value)

\* bridgeToken(owner, token, amount)
bridgeTokenErr(caller, owner, token, amount) ==
  IF ~onlyController(caller) THEN "NotController"
  ELSE IF owner = ZeroAddress \/ token = ZeroAddress THEN "InvalidAddress"
  ELSE IF amount = 0 THEN "InvalidAmount"
  ELSE "none"

BridgeToken(caller, owner, token, amount) ==
  IF bridgeTokenErr(caller, owner, token, amount) /= "none" THEN UNCHANGED vars
  ELSE creditWrites(owner, token, amount)

\* a release that does not compare the amount with the stored balance
releaseErrNoBalanceTest(caller, owner, asset, to, amount, sent) ==
  IF ~onlyController(caller) THEN "NotController"
  ELSE IF owner = ZeroAddress \/ to = ZeroAddress THEN "InvalidAddress"
  ELSE IF amount = 0 THEN "InvalidAmount"
  ELSE IF ~sent THEN "TransferFailed"
  ELSE "none"

\* release(owner, asset, to, amount); sent is the outcome of the native call
\* or of the safeTransfer to the recipient
releaseErr(caller, owner, asset, to, amount, sent) ==
  IF ~onlyController(caller) THEN "NotController"
  ELSE IF owner = ZeroAddress \/ to = ZeroAddress THEN "InvalidAddress"
  ELSE IF amount = 0 THEN "InvalidAmount"
  ELSE IF vaultBalances[owner][asset] < amount THEN "InsufficientBalance"
  ELSE IF ~sent THEN "TransferFailed"
  ELSE "none"

Release(caller, owner, asset, to, amount, sent) ==
  IF releaseErr(caller, owner, asset, to, amount, sent) /= "none" THEN UNCHANGED vars
  ELSE
    /\ vaultBalances' = [vaultBalances EXCEPT ![owner][asset] = @ - amount]
    /\ vaultReleased' = [vaultReleased EXCEPT ![owner][asset] = @ + amount]
    /\ vaultReceived' = [vaultReceived EXCEPT ![to][asset] = @ + amount]
    /\ UNCHANGED << vaultCredited, outsideVault >>

(* ------------------------ Verification Endpoint ------------------------ *)

\* the shapes of the proof field of a request body: a 0x string, an object
\* whose proof or proofData is a 0x string, any other string, any other object
ProofShapes == {"0xString", "nested0xString", "string", "object"}

\* normalizeProof(value): the 0x payload, or null
normalizeProof(value) ==
  IF value \in {"0xString", "nested0xString"} THEN "0x" ELSE "null"

\* a request body and what its collaborators answer: whether the four
\* required fields are there, whether the verifier throws or returns a result
\* and the two flags of result.isValidDetails, the identity it discloses
\* (EmptyIdentity when no name comes with it), the owner address of
\* userDefinedData (ZeroAddress for none), whether the claim-status read
\* answers or throws, the proof's shape, whether a relayer key is configured
mkRequest(fields, verify, isValid, isMinimumAgeValid, identity, ownerAddress, lookup, proof, relayerKey) ==
  [ fields |-> fields, verify |-> verify, isValid |-> isValid,
    isMinimumAgeValid |-> isMinimumAgeValid, identity |-> identity,
    ownerAddress |-> ownerAddress, lookup |-> lookup, proof |-> proof,
    relayerKey |-> relayerKey ]

\* a flag test that looks at the overall validity only
verificationFailedValidityOnly(req) == ~req.isValid

\* if (!isValid || !isMinimumAgeValid)
verificationFailed(req) == ~req.isValid \/ ~req.isMinimumAgeValid

errorResponse(reason) ==
  [ status |-> "error", result |-> FALSE, reason |-> reason, relayed |-> FALSE,
    tx |-> "none", alreadyClaimed |-> FALSE ]

\* hasIdentityClaimed(owner, identityHash) as the chain holds it
hasIdentityClaimed(owner, hash) ==
  owner \in Owners /\ hash \in IdentityHashes /\ identityToWill[owner][hash].claimed

\* writeWithRelayer(claimWithIdentity, [owner, hash, proof]): the call goes
\* out; it is mined when the contract accepts it and throws when it reverts
writeWithRelayer(owner, hash) ==
  IF owner \in Owners /\ hash \in IdentityHashes /\ claimWithIdentityErr(owner, hash) = "none"
  THEN "mined" ELSE "reverted"

\* POST(request): the response, with whether writeWithRelayer was called
POST(req) ==
  IF ~req.fields
  THEN errorResponse("Proof, publicSignals, attestationId and userContextData are required")
  ELSE IF req.verify = "throws" THEN errorResponse("Unknown error")
  ELSE IF verificationFailed(req)
  THEN errorResponse(IF ~req.isMinimumAgeValid THEN "Minimum age verification failed"
                     ELSE "Verification failed")
  ELSE
    LET ownerAddress == req.ownerAddress
        hash == IF /\ req.identity.firstName /= ""
                   /\ req.identity.lastName /= ""
                   /\ req.identity.dateOfBirth /= ""
                THEN identityHash(req.identity) ELSE "null"
        claimedAlready == IF /\ ownerAddress /= ZeroAddress /\ hash /= "null"
                             /\ req.lookup = "answers"
                          THEN hasIdentityClaimed(ownerAddress, hash)
                          ELSE FALSE
        proofBytes == normalizeProof(req.proof)
        relay == /\ ownerAddress /= ZeroAddress
                 /\ hash /= "null"
                 /\ proofBytes /= "null"
                 /\ req.relayerKey
                 /\ ~claimedAlready
        tx == IF relay THEN writeWithRelayer(ownerAddress, hash) ELSE "none"
    IN [ status |-> "success", result |-> TRUE, reason |-> "", relayed |-> relay,
         tx |-> tx, alreadyClaimed |-> (claimedAlready \/ tx = "mined") ]

\* the requests: one without the required fields, one on which the verifier
\* throws, one for each way a flag is false, and with both flags true every
\* combination of the rest
Requests ==
  { mkRequest(FALSE, "result", TRUE, TRUE, IdA, "o1", "answers", "0xString", TRUE),
    mkRequest(TRUE, "throws", TRUE, TRUE, IdA, "o1", "answers", "0xString", TRUE) }
  \cup { mkRequest(TRUE, "result", v, m, IdA, "o1", "answers", "0xString", TRUE) :
           v \in BOOLEAN, m \in BOOLEAN }
  \cup { mkRequest(TRUE, "result", TRUE, TRUE, id, o, l, p, k) :
           id \in {IdA, EmptyIdentity}, o \in {"o1", ZeroAddress},
           l \in {"answers", "throws"}, p \in ProofShapes, k \in BOOLEAN }

\* the endpoint handles a request; the contract call it relays writes nothing
\* (see ClaimWithIdentity)
Post(req) ==
  /\ verifyCall' = [ op |-> "POST", req |-> req, res |-> POST(req),
                      claimedOnChain |->
                        hasIdentityClaimed(req.ownerAddress, identityHash(req.identity)) ]
  /\ UNCHANGED << vault, tokenAnswer, now, ledger, balance, approved, willOps, paidTotal,
                  paidSinceWrite, lastCall >>

(* --------------------------- the state machine ------------------------- *)

\* the sequences over S of length at most n
RECURSIVE SeqsUpTo(_, _)
SeqsUpTo(S, n) ==
  IF n = 0 THEN {<< >>}
  ELSE LET shorter == SeqsUpTo(S, n - 1)
       IN shorter \cup {Append(q, x) : q \in {r \in shorter : Len(r) = n - 1}, x \in S}

oneBatch(a1, s1) == [assets |-> << a1 >>, shares |-> << s1 >>]

\* the (assets, shares) arguments of a will call: every batch of up to
\* MaxBatch pairs, and one call whose two arrays differ in length
Batches ==
  { [assets |-> [i \in 1..Len(q) |-> q[i][1]], shares |-> [i \in 1..Len(q) |-> q[i][2]]] :
      q \in SeqsUpTo(Assets \X ShareInputs, MaxBatch) }
  \cup { [assets |-> << "t1" >>, shares |-> << >>] }

\* the will calls explored together with the claims: one rule on one asset,
\* fixed, proportional, or removed
ClaimBatches ==
  { oneBatch("t1", s) : s \in { mkShare("ABSOLUTE", 0, FALSE),
                                 mkShare("ABSOLUTE", 100, FALSE),
                                 mkShare("BPS", 5000, TRUE) } }

IdentityClaimBatches == { oneBatch("t1", mkShare("ABSOLUTE", 100, FALSE)) }

\* the whole ledger on one asset: two direct beneficiaries and one identity
\* beneficiary; proofs name the hash of the stored identity and disclose that
\* identity or one with the same packed encoding, and fresh nullifiers come
\* in increasing order
Next ==
  \/ Tick
  \/ \E o \in OneOwner, d \in Durations : ConfigureLiveness(o, d)
  \/ \E o \in OneOwner : CheckIn(o)
  \/ \E o \in OneOwner, v \in BOOLEAN : Approve(o, "t1", v)
  \/ \E o \in OneOwner, v \in BalanceChoices : BalanceChange(o, "t1", v)
  \/ \E o \in OneOwner, b \in Beneficiaries, bt \in ClaimBatches :
        willOps < MaxWillOps /\ CreateWill(o, b, bt.assets, bt.shares)
  \/ \E o \in OneOwner, bt \in IdentityClaimBatches :
        willOps < MaxWillOps /\ CreateIdentityWill(o, IdA, bt.assets, bt.shares)
  \/ \E b \in Beneficiaries, o \in OneOwner : Claim(b, o)
  \/ \E o \in OneOwner, h \in IdentityHashes : ClaimWithIdentity("b2", o, h)
  \/ \E o \in OneOwner, id \in {IdA, IdB}, n \in Nullifiers :
        /\ \A m \in Nullifiers \ nullifierUsed : n <= m
        /\ CustomVerificationHook(o, identityHash(IdA), id, n, "b2")

Spec == Init /\ [][Next]_vars

\* the batches whose shares all carry a share type a rule can have
AllocBatches ==
  { bt \in Batches : \A i \in 1..Len(bt.shares) : bt.shares[i].shareType /= "NONE" }

\* the batches of at most one pair
ShortBatches == { bt \in AllocBatches : Len(bt.assets) <= 1 }

\* the allocation ledger alone, on two assets: every batch for the direct
\* beneficiaries, the short ones for the identity beneficiaries
NextAlloc ==
  \/ \E o \in OneOwner, d \in Durations : ConfigureLiveness(o, d)
  \/ \E o \in OneOwner, a \in Assets : Approve(o, a, TRUE)
  \/ \E o \in OneOwner, b \in Beneficiaries \cup {ZeroAddress}, bt \in AllocBatches :
        willOps < MaxAllocOps /\ CreateWill(o, b, bt.assets, bt.shares)
  \/ \E o \in OneOwner, id \in IdentityInputs, bt \in ShortBatches :
        willOps < MaxAllocOps /\ CreateIdentityWill(o, id, bt.assets, bt.shares)

SpecAlloc == Init /\ [][NextAlloc]_vars

\* the will calls explored with claims on two assets: a fixed amount of each
\* asset, or of one of them
PartialBatches ==
  { [assets |-> << "t1", "t2" >>,
     shares |-> << mkShare("ABSOLUTE", 100, FALSE), mkShare("ABSOLUTE", 100, FALSE) >>],
    [assets |-> << "t2", "t1" >>,
     shares |-> << mkShare("BPS", 5000, FALSE), mkShare("ABSOLUTE", 100, FALSE) >>],
    oneBatch("t2", mkShare("ABSOLUTE", 100, FALSE)) }

\* claims on two assets whose allowances the owner grants and revokes one by one
NextPartial ==
  \/ Tick
  \/ \E o \in OneOwner, d \in Durations : ConfigureLiveness(o, d)
  \/ \E o \in OneOwner, a \in Assets, v \in BOOLEAN : Approve(o, a, v)
  \/ \E o \in OneOwner, b \in Beneficiaries, bt \in PartialBatches :
        willOps < MaxWillOps /\ CreateWill(o, b, bt.assets, bt.shares)
  \/ \E b \in Beneficiaries, o \in OneOwner : Claim(b, o)

SpecPartial == Init /\ [][NextPartial]_vars

\* the identity path alone: two identity beneficiaries, and proofs that name
\* any hash, disclose any identity and carry any nullifier
NextIdentity ==
  \/ Tick
  \/ \E o \in OneOwner, d \in Durations : ConfigureLiveness(o, d)
  \/ \E o \in OneOwner : Approve(o, "t1", TRUE)
  \/ \E o \in OneOwner, id \in {IdA, IdC}, bt \in IdentityClaimBatches :
        willOps < MaxWillOps /\ CreateIdentityWill(o, id, bt.assets, bt.shares)
  \/ \E c \in Beneficiaries, o \in OneOwner, h \in IdentityHashes : ClaimWithIdentity(c, o, h)
  \/ \E o \in OneOwner, h \in IdentityHashes, id \in DisclosedIdentities, n \in Nullifiers,
          c \in Beneficiaries :
        CustomVerificationHook(o, h, id, n, c)

SpecIdentity == Init /\ [][NextIdentity]_vars

\* the batches of one pair or of an earlier and a later pair
PairBatches == { bt \in AllocBatches : Len(bt.assets) <= 2 }

\* the allocation ledger with check-ins: will calls with every such batch,
\* valid or not, under an owner who configures and approves at any point
NextRules ==
  \/ \E o \in OneOwner, d \in Durations : ConfigureLiveness(o, d)
  \/ \E o \in OneOwner : CheckIn(o)
  \/ \E o \in OneOwner, a \in Assets : Approve(o, a, TRUE)
  \/ \E o \in OneOwner, b \in Beneficiaries \cup {ZeroAddress}, bt \in PairBatches :
        willOps < MaxWillOps /\ CreateWill(o, b, bt.assets, bt.shares)
  \/ \E o \in OneOwner, id \in IdentityInputs, bt \in ShortBatches :
        willOps < MaxWillOps /\ CreateIdentityWill(o, id, bt.assets, bt.shares)

SpecRules == Init /\ [][NextRules]_vars

\* will calls that go through or fail on the first or on a later pair,
\* depending on the state: rules that fill the cap or half of it, a deletion,
\* a later pair over the cap or over BPS_MAX, arrays of different lengths
RevertBatches ==
  { oneBatch("t1", mkShare("BPS", 10000, FALSE)),
    oneBatch("t1", mkShare("BPS", 5000, TRUE)),
    oneBatch("t1", mkShare("ABSOLUTE", 0, FALSE)),
    oneBatch("t2", mkShare("BPS", 10001, FALSE)),
    [assets |-> << "t2", "t1" >>,
     shares |-> << mkShare("ABSOLUTE", 100, FALSE), mkShare("BPS", 5000, TRUE) >>],
    [assets |-> << "t2", "t1" >>,
     shares |-> << mkShare("ABSOLUTE", 100, FALSE), mkShare("BPS", 10001, FALSE) >>],
    [assets |-> << "t1" >>, shares |-> << >>] }

\* the allocation ledger under those calls, for both kinds of beneficiary
NextRevert ==
  \/ \E o \in OneOwner, d \in Durations : ConfigureLiveness(o, d)
  \/ \E o \in OneOwner, a \in Assets : Approve(o, a, TRUE)
  \/ \E o \in OneOwner, b \in Beneficiaries \cup {ZeroAddress}, bt \in RevertBatches :
        willOps < MaxAllocOps /\ CreateWill(o, b, bt.assets, bt.shares)
  \/ \E o \in OneOwner, id \in IdentityInputs, bt \in RevertBatches :
        willOps < MaxAllocOps /\ CreateIdentityWill(o, id, bt.assets, bt.shares)

SpecRevert == Init /\ [][NextRevert]_vars

\* the registration of beneficiaries: calls of at most one pair that add,
\* overwrite and delete rules for both kinds of beneficiary
NextRegister ==
  \/ \E o \in OneOwner, d \in Durations : ConfigureLiveness(o, d)
  \/ \E o \in OneOwner, a \in Assets : Approve(o, a, TRUE)
  \/ \E o \in OneOwner, b \in Beneficiaries \cup {ZeroAddress}, bt \in ShortBatches :
        willOps < MaxAllocOps /\ CreateWill(o, b, bt.assets, bt.shares)
  \/ \E o \in OneOwner, id \in IdentityInputs, bt \in ShortBatches :
        willOps < MaxAllocOps /\ CreateIdentityWill(o, id, bt.assets, bt.shares)

SpecRegister == Init /\ [][NextRegister]_vars

\* the one batch each owner writes in the runs with two owners
OwnersBatches == { oneBatch("t1", mkShare("BPS", 10000, FALSE)) }

\* two owners side by side, each with a direct and an identity beneficiary;
\* a proof can be submitted against either owner with either nullifier
NextOwners ==
  \/ Tick
  \/ \E o \in Owners : ConfigureLiveness(o, 1)
  \/ \E o \in Owners : CheckIn(o)
  \/ \E o \in Owners : Approve(o, "t1", TRUE)
  \/ \E o \in Owners, bt \in OwnersBatches :
        willOps < MaxWillOps /\ CreateWill(o, "b1", bt.assets, bt.shares)
  \/ \E o \in Owners, bt \in OwnersBatches :
        willOps < MaxWillOps /\ CreateIdentityWill(o, IdA, bt.assets, bt.shares)
  \/ \E o \in Owners : Claim("b1", o)
  \/ \E o \in Owners : ClaimWithIdentity("b2", o, identityHash(IdA))
  \/ \E o \in Owners, n \in Nullifiers :
        CustomVerificationHook(o, identityHash(IdA), IdA, n, "b2")

SpecOwners == Init /\ [][NextOwners]_vars

\* one beneficiary's rule on one asset written, claimed, deleted and written
\* again
NextRewrite ==
  \/ Tick
  \/ \E o \in OneOwner : ConfigureLiveness(o, 1)
  \/ \E o \in OneOwner : Approve(o, "t1", TRUE)
  \/ \E o \in OneOwner, bt \in ClaimBatches :
        willOps < MaxAllocOps /\ CreateWill(o, "b1", bt.assets, bt.shares)
  \/ \E o \in OneOwner : Claim("b1", o)

SpecRewrite == Init /\ [][NextRewrite]_vars

\* the owners named in the calls of the vault
VaultOwners == Owners \cup {ZeroAddress}

\* the recipients named in release
VaultRecipients == {"b1", ZeroAddress}

\* the custody contract under deposits, bridged credits and releases for two
\* owners and two assets
NextVault ==
  \/ \E o \in VaultOwners, v \in VaultAmounts : DepositNative(o, v)
  \/ \E o \in VaultOwners, a \in VaultAssets, v \in VaultAmounts, pulled \in BOOLEAN :
        DepositToken(o, a, v, pulled)
  \/ \E c \in VaultCallers, o \in VaultOwners, v \in VaultAmounts : BridgeNative(c, o, v)
  \/ \E c \in VaultCallers, o \in VaultOwners, a \in VaultAssets, v \in VaultAmounts :
        BridgeToken(c, o, a, v)
  \/ \E c \in VaultCallers, o \in VaultOwners, a \in VaultAssets, to \in VaultRecipients,
          v \in VaultAmounts, sent \in BOOLEAN :
        Release(c, o, a, to, v, sent)

SpecVault == Init /\ [][NextVault]_vars

\* the one-pair batches with every share input, the share type NONE included
ShapeBatches == { oneBatch(a, sh) : a \in Assets, sh \in ShareInputs }

\* will calls with any share type value, for a direct and an identity record
NextShape ==
  \/ \E o \in OneOwner : ConfigureLiveness(o, 1)
  \/ \E o \in OneOwner, a \in Assets : Approve(o, a, TRUE)
  \/ \E o \in OneOwner, bt \in ShapeBatches :
        willOps < MaxAllocOps /\ CreateWill(o, "b1", bt.assets, bt.shares)
  \/ \E o \in OneOwner, bt \in ShapeBatches :
        willOps < MaxAllocOps /\ CreateIdentityWill(o, IdA, bt.assets, bt.shares)

SpecShape == Init /\ [][NextShape]_vars

\* what the owner is left with when the holdings change before a claim
ClampBalances == {0, 50}

\* direct claims against an owner whose holdings drop, to little or to
\* nothing, before or between the claims
NextClamp ==
  \/ Tick
  \/ \E o \in OneOwner : ConfigureLiveness(o, 1)
  \/ \E o \in OneOwner, v \in BOOLEAN : Approve(o, "t1", v)
  \/ \E o \in OneOwner, v \in ClampBalances : BalanceChange(o, "t1", v)
  \/ \E o \in OneOwner, b \in Beneficiaries, bt \in ClaimBatches :
        willOps < MaxWillOps /\ CreateWill(o, b, bt.assets, bt.shares)
  \/ \E b \in Beneficiaries, o \in OneOwner : Claim(b, o)

SpecClamp == Init /\ [][NextClamp]_vars

\* rules on two assets, in either order
ZeroBatches ==
  { [assets |-> << "t1", "t2" >>,
     shares |-> << mkShare("BPS", 5000, FALSE), mkShare("ABSOLUTE", 100, FALSE) >>],
    [assets |-> << "t2", "t1" >>,
     shares |-> << mkShare("ABSOLUTE", 100, FALSE), mkShare("BPS", 5000, FALSE) >>] }

\* claims on two assets against an owner who may have emptied either holding,
\* before the first claim or after it
NextZero ==
  \/ Tick
  \/ \E o \in OneOwner : ConfigureLiveness(o, 1)
  \/ \E o \in OneOwner, a \in Assets, v \in BOOLEAN : Approve(o, a, v)
  \/ \E o \in OneOwner, a \in Assets : BalanceChange(o, a, 0)
  \/ \E o \in OneOwner, bt \in ZeroBatches :
        willOps < MaxWillOps /\ CreateWill(o, "b1", bt.assets, bt.shares)
  \/ \E o \in OneOwner : Claim("b1", o)

SpecZero == Init /\ [][NextZero]_vars

\* a fixed amount of each of two assets
ExecutorBatch ==
  [assets |-> << "t1", "t2" >>,
   shares |-> << mkShare("ABSOLUTE", 100, FALSE), mkShare("ABSOLUTE", 100, FALSE) >>]

\* claims on two tokens that answer transferFrom in every way
NextExecutor ==
  \/ Tick
  \/ \E o \in OneOwner : ConfigureLiveness(o, 1)
  \/ \E o \in OneOwner, a \in Assets, v \in BOOLEAN : Approve(o, a, v)
  \/ \E a \in Assets, s \in Answers : SetAnswer(a, s)
  \/ \E o \in OneOwner :
        willOps < MaxWillOps /\ CreateWill(o, "b1", ExecutorBatch.assets, ExecutorBatch.shares)
  \/ \E o \in OneOwner : Claim("b1", o)

SpecExecutor == Init /\ [][NextExecutor]_vars

\* BPS pairs at and around both ends of the range, and a fixed amount
BpsInputs ==
  { mkShare("BPS", 0, FALSE), mkShare("BPS", 1, FALSE), mkShare("BPS", 10000, FALSE),
    mkShare("BPS", 10001, FALSE), mkShare("ABSOLUTE", 100, FALSE) }

BpsBatches == { oneBatch(a, sh) : a \in Assets, sh \in BpsInputs }

\* will calls with BPS amounts at the ends of the range, for two direct
\* records and an identity record
NextBps ==
  \/ \E o \in OneOwner : ConfigureLiveness(o, 1)
  \/ \E o \in OneOwner, a \in Assets : Approve(o, a, TRUE)
  \/ \E o \in OneOwner, b \in Beneficiaries, bt \in BpsBatches :
        willOps < MaxAllocOps /\ CreateWill(o, b, bt.assets, bt.shares)
  \/ \E o \in OneOwner, bt \in BpsBatches :
        willOps < MaxAllocOps /\ CreateIdentityWill(o, IdA, bt.assets, bt.shares)

SpecBps == Init /\ [][NextBps]_vars

\* the verification endpoint next to a ledger with one identity record that
\* the hook completes
NextEndpoint ==
  \/ Tick
  \/ \E o \in OneOwner : ConfigureLiveness(o, 1)
  \/ \E o \in OneOwner : Approve(o, "t1", TRUE)
  \/ \E o \in OneOwner, bt \in IdentityClaimBatches :
        willOps < MaxWillOps /\ CreateIdentityWill(o, IdA, bt.assets, bt.shares)
  \/ \E o \in OneOwner : CustomVerificationHook(o, identityHash(IdA), IdA, 1, "b2")
  \/ \E req \in Requests : Post(req)

SpecEndpoint == Init /\ [][NextEndpoint]_vars

\* BPS rules on one asset: a half, the whole, and the deletion
BpsTotalBatches ==
  { oneBatch("t1", sh) : sh \in { mkShare("BPS", 5000, FALSE), mkShare("BPS", 10000, FALSE),
                                  mkShare("BPS", 0, FALSE) } }

\* BPS rules written, deleted, claimed and written again, by an owner who
\* checks in and whose holding is spent down or topped up in between; the
\* beneficiaries hold nothing at the start and receive from claims alone
NextBpsTotal ==
  \/ Tick
  \/ \E o \in OneOwner : ConfigureLiveness(o, 1)
  \/ \E o \in OneOwner : CheckIn(o)
  \/ \E o \in OneOwner : Approve(o, "t1", TRUE)
  \/ \E o \in OneOwner, v \in BalanceChoices : BalanceChange(o, "t1", v)
  \/ \E o \in OneOwner, b \in Beneficiaries, bt \in BpsTotalBatches :
        willOps < MaxWillOps /\ CreateWill(o, b, bt.assets, bt.shares)
  \/ \E b \in Beneficiaries, o \in OneOwner : Claim(b, o)

SpecBpsTotal == Init /\ [][NextBpsTotal]_vars

\* what the beneficiaries have received of an asset, all of it from claims
RECURSIVE transferredToBeneficiaries(_, _, _)
transferredToBeneficiaries(bal, a, bs) ==
  IF bs = {} THEN 0
  ELSE LET b == CHOOSE x \in bs : TRUE
       IN bal[a][b] + transferredToBeneficiaries(bal, a, bs \ {b})

\* the durations of a first configuration and of a later, different one
RearmDurations == {0, 1, 2}

\* the liveness tracker next to one beneficiary's rule on one asset: the owner
\* configures, re-configures and checks in before and after the claim
NextLiveness ==
  \/ Tick
  \/ \E o \in OneOwner, d \in RearmDurations : ConfigureLiveness(o, d)
  \/ \E o \in OneOwner : CheckIn(o)
  \/ \E o \in OneOwner : Approve(o, "t1", TRUE)
  \/ \E o \in OneOwner, bt \in ClaimBatches :
        willOps < MaxWillOps /\ CreateWill(o, "b1", bt.assets, bt.shares)
  \/ \E o \in OneOwner : Claim("b1", o)

SpecLiveness == Init /\ [][NextLiveness]_vars

\* the owner after the window has lapsed: two direct beneficiaries and an
\* identity beneficiary hold rules on one asset, claims are called at any time,
\* and the owner checks in, re-configures and writes rules before and after them
NextRearm ==
  \/ Tick
  \/ \E o \in OneOwner, d \in RearmDurations : ConfigureLiveness(o, d)
  \/ \E o \in OneOwner : CheckIn(o)
  \/ \E o \in OneOwner : Approve(o, "t1", TRUE)
  \/ \E o \in OneOwner, b \in Beneficiaries, bt \in ClaimBatches :
        willOps < MaxWillOps /\ CreateWill(o, b, bt.assets, bt.shares)
  \/ \E o \in OneOwner, bt \in IdentityClaimBatches :
        willOps < MaxWillOps /\ CreateIdentityWill(o, IdA, bt.assets, bt.shares)
  \/ \E b \in Beneficiaries, o \in OneOwner : Claim(b, o)
  \/ \E o \in OneOwner, h \in IdentityHashes : ClaimWithIdentity("b2", o, h)

SpecRearm == Init /\ [][NextRearm]_vars

\* identity claims on a token whose allowance comes and goes: one identity
\* record, proofs that disclose its identity with any nullifier, and
\* claimWithIdentity calls
NextRetry ==
  \/ Tick
  \/ \E o \in OneOwner : ConfigureLiveness(o, 1)
  \/ \E o \in OneOwner, v \in BOOLEAN : Approve(o, "t1", v)
  \/ \E o \in OneOwner, bt \in IdentityClaimBatches :
        willOps < MaxWillOps /\ CreateIdentityWill(o, IdA, bt.assets, bt.shares)
  \/ \E o \in OneOwner, h \in IdentityHashes : ClaimWithIdentity("b2", o, h)
  \/ \E o \in OneOwner, n \in Nullifiers :
        CustomVerificationHook(o, identityHash(IdA), IdA, n, "b2")

SpecRetry == Init /\ [][NextRetry]_vars

\* two owners and two accounts that call claim against either of them; each
\* owner configures, checks in and writes rules for either account
NextCallers ==
  \/ Tick
  \/ \E o \in Owners : ConfigureLiveness(o, 1)
  \/ \E o \in Owners : CheckIn(o)
  \/ \E o \in Owners : Approve(o, "t1", TRUE)
  \/ \E o \in Owners, b \in Beneficiaries, bt \in IdentityClaimBatches :
        willOps < MaxWillOps /\ CreateWill(o, b, bt.assets, bt.shares)
  \/ \E b \in Beneficiaries, o \in Owners : Claim(b, o)

SpecCallers == Init /\ [][NextCallers]_vars

(* ------------------------------ properties ----------------------------- *)

\* the record stored under a beneficiary key of an owner
willOf(o, k) == IF k \in Beneficiaries THEN beneficiaryToWill[o][k] ELSE identityToWill[o][k]

\* the amount a stored rule contributes to the basis-point total of an asset
storedBps(will, a) ==
  IF will.assetToShare[a].shareType = "BPS" THEN will.assetToShare[a].shareAmount ELSE 0

RECURSIVE sumStoredBps(_, _, _)
sumStoredBps(o, a, keys) ==
  IF keys = {} THEN 0
  ELSE LET k == CHOOSE x \in keys : TRUE
       IN storedBps(willOf(o, k), a) + sumStoredBps(o, a, keys \ {k})

\* the sum of the stored BPS rules of an asset over all beneficiaries of an owner
storedBpsSum(o, a) == sumStoredBps(o, a, Keys)

WillCalls == {"createWill", "createIdentityWill"}
ClaimCalls == {"claim", "customVerificationHook"}

\* C1: for every owner and asset the stored BPS rules of all beneficiaries,
\* address-based and identity-based together, sum to at most 10000.
C1_StoredBpsWithinCap ==
  \A o \in Owners, a \in Assets : storedBpsSum(o, a) <= BPS_MAX

\* C2: after every successful create, update or delete of a rule the tracked
\* total assetTotalAllocatedBps equals the sum of the stored BPS rules.
C2_TrackedTotalIsStoredSum ==
  lastCall.op \in WillCalls =>
    \A o \in Owners, a \in Assets : assetTotalAllocatedBps[o][a] = storedBpsSum(o, a)

C4_IdentityClaimChecked ==
  lastCall.op = "customVerificationHook" =>
    /\ lastCall.time > lastCall.checkedIn + lastCall.duration
    /\ lastCall.recordType = "IDENTITY_VERIFIED"
    /\ ~lastCall.recordDone

closingLegs(call, a) ==
  { i \in 1..Len(call.legs) :
      call.legs[i].asset = a /\ call.legs[i].result \in {"ok", "zero", "clampedZero"} }

\* C6 as stated: for each (owner, beneficiary record, asset) at most one
\* successful transfer is ever executed.
C6_NoSecondPaymentEver ==
  \A o \in Owners, k \in Keys, a \in Assets : paidTotal[o][k][a] <= 1

\* C6, amended: each stored rule is paid at most once; a rule pays again only
\* after the owner has written it anew, and a paid rule is marked claimed.
C6_OnePaymentPerWrittenRule ==
  \A o \in Owners, k \in Keys, a \in Assets :
    /\ paidSinceWrite[o][k][a] <= 1
    /\ paidSinceWrite[o][k][a] = 1 => willOf(o, k).assetToShare[a].claimed

\* a beneficiary paid twice for an asset, once under each of two written rules
C6_Witness ==
  \E o \in Owners, k \in Keys, a \in Assets :
    /\ paidTotal[o][k][a] = 2
    /\ paidSinceWrite[o][k][a] = 1
    /\ willOf(o, k).assetToShare[a].claimed

\* C7 as stated: once true, a rule's claimed flag is never false again under
\* any later operation.
C7_ClaimedNeverResets ==
  [][\A o \in Owners, k \in Keys, a \in Assets :
        willOf(o, k).assetToShare[a].claimed => willOf(o, k)'.assetToShare[a].claimed]_vars

\* C7, amended: the flag becomes true only by a claim of that record that
\* closes the rule (a transfer that went through or a zero amount), and
\* becomes false again only when the owner writes or deletes the rule.
C7_ClaimedOneWayUntilRewritten ==
  [][ \/ UNCHANGED << beneficiaryToWill, identityToWill >>
      \/ \A o \in Owners, k \in Keys :
            \/ willOf(o, k)' = willOf(o, k)
            \/ \A a \in Assets :
                 LET before == willOf(o, k).assetToShare[a].claimed
                     after  == willOf(o, k)'.assetToShare[a].claimed
                 IN /\ (~before /\ after) =>
                         /\ lastCall'.op \in ClaimCalls
                         /\ lastCall'.owner = o /\ lastCall'.key = k
                         /\ closingLegs(lastCall', a) /= {}
                    /\ (before /\ ~after) =>
                         /\ lastCall'.op \in WillCalls
                         /\ lastCall'.owner = o /\ lastCall'.key = k ]_vars

\* the owner has just written anew a rule that had been paid: its flag is
\* false again
C7_Witness ==
  \E o \in Owners, k \in Keys, a \in Assets :
    /\ lastCall.op \in WillCalls /\ lastCall.owner = o /\ lastCall.key = k
    /\ paidTotal[o][k][a] >= 1
    /\ paidSinceWrite[o][k][a] = 0
    /\ willOf(o, k).assetToShare[a].shareType /= "NONE"
    /\ ~willOf(o, k).assetToShare[a].claimed

\* C8: right after a claim that went through, the same beneficiary's next
\* claim goes through and leaves every balance, flag and snapshot as it is.
C8_SecondClaimChangesNothing ==
  lastCall.op = "claim" =>
    LET b == lastCall.caller
        o == lastCall.owner
        cs == executeClaim(o, beneficiaryToWill[o][b], assetBalanceSnapshot[o],
                           assetSnapshotTaken[o], balance, b)
    IN /\ claimErr(b, o) = "none"
       /\ cs.will = beneficiaryToWill[o][b]
       /\ cs.snap = assetBalanceSnapshot[o]
       /\ cs.taken = assetSnapshotTaken[o]
       /\ cs.bal = balance

\* a claim has passed over a rule that an earlier claim of the same
\* beneficiary had paid
C8_Witness ==
  /\ lastCall.op = "claim"
  /\ \E i \in 1..Len(lastCall.legs) :
        /\ lastCall.legs[i].result = "skipped"
        /\ paidSinceWrite[lastCall.owner][lastCall.caller][lastCall.legs[i].asset] = 1

\* C9: every rule a claim processes has a snapshot, and the amount of a BPS
\* rule is floor(snapshot * bps / 10000), whatever the owner's live balance.
C9_BpsAmountFromSnapshot ==
  lastCall.op \in ClaimCalls =>
    \A i \in 1..Len(lastCall.legs) :
      LET leg == lastCall.legs[i] IN
      leg.result /= "skipped" =>
        /\ assetSnapshotTaken[lastCall.owner][leg.asset]
        /\ leg.shareType = "BPS" =>
             leg.amount =
               (assetBalanceSnapshot[lastCall.owner][leg.asset] * leg.shareAmount) \div BPS_MAX

\* the owner held 1000, one beneficiary took a fixed 100, and another has
\* just been paid 5000 bps: 500 of the 900 that were left
C9_Witness ==
  /\ lastCall.op = "claim"
  /\ \E i \in 1..Len(lastCall.legs) :
        LET leg == lastCall.legs[i] IN
        /\ leg.shareType = "BPS" /\ leg.shareAmount = 5000
        /\ leg.result = "ok" /\ leg.amount = 500 /\ leg.transferAmount = 500
        /\ assetBalanceSnapshot[lastCall.owner][leg.asset] = 1000
        /\ balance[leg.asset][lastCall.owner] = 400
        /\ \E b \in Beneficiaries : balance[leg.asset][b] = 100

\* C10: once taken, a snapshot and its taken-flag never change.
C10_SnapshotImmutable ==
  [][\A o \in Owners, a \in Assets :
        assetSnapshotTaken[o][a] =>
          /\ assetSnapshotTaken'[o][a]
          /\ assetBalanceSnapshot'[o][a] = assetBalanceSnapshot[o][a]]_vars

\* a claim has processed an unclaimed rule of an asset whose snapshot differs
\* from the balance the claim found
C10_Witness ==
  /\ lastCall.op \in ClaimCalls
  /\ \E i \in 1..Len(lastCall.legs) :
        LET leg == lastCall.legs[i]
            found == balance[leg.asset][lastCall.owner]
                       + (IF leg.result = "ok" THEN leg.transferAmount ELSE 0)
        IN /\ leg.result /= "skipped"
           /\ assetSnapshotTaken[lastCall.owner][leg.asset]
           /\ assetBalanceSnapshot[lastCall.owner][leg.asset] /= found

\* C11: a claim that went through has processed every asset of the list, in
\* order: a rule is claimed where the transfer succeeded, unclaimed where it
\* failed, and a rule already claimed is passed over and not paid again.
C11_PartialFailure ==
  lastCall.op = "claim" =>
    LET will == beneficiaryToWill[lastCall.owner][lastCall.caller]
        legs == lastCall.legs
    IN /\ Len(legs) = Len(will.assets)
       /\ \A i \in 1..Len(legs) :
            /\ legs[i].asset = will.assets[i]
            /\ legs[i].result = "ok" => will.assetToShare[legs[i].asset].claimed
            /\ legs[i].result = "failed" => ~will.assetToShare[legs[i].asset].claimed
            /\ legs[i].result = "skipped" => will.assetToShare[legs[i].asset].claimed
            /\ paidSinceWrite[lastCall.owner][lastCall.caller][legs[i].asset] <= 1

\* after a claim whose first transfer failed and whose second went through, a
\* later claim has paid the first asset and passed over the second
C11_Witness ==
  /\ lastCall.op = "claim"
  /\ Len(lastCall.legs) = 2
  /\ lastCall.legs[1].result = "ok"
  /\ lastCall.legs[2].result = "skipped"
  /\ paidTotal[lastCall.owner][lastCall.caller][lastCall.legs[2].asset] = 1
  /\ balance[lastCall.legs[1].asset][lastCall.caller] = lastCall.legs[1].transferAmount
  /\ balance[lastCall.legs[2].asset][lastCall.caller] = lastCall.legs[2].transferAmount + 100

\* every proof that carries a nullifier of the registry is turned away
spentNullifiersRejected ==
  \A n \in nullifierUsed, o \in Owners, h \in IdentityHashes, id \in DisclosedIdentities :
    customVerificationHookErr(o, h, id, n) = "NullifierAlreadyUsed"

\* C12: a nullifier of the registry completes no further identity claim, for
\* any owner, hash and disclosure (NullifierAlreadyUsed); the hook takes
\* effect only with a nullifier that was not in the registry and puts it
\* there; and no nullifier ever leaves the registry.
C12_NullifierSingleUse ==
  [][/\ spentNullifiersRejected
     /\ spentNullifiersRejected'
     /\ nullifierUsed \subseteq nullifierUsed'
     /\ (lastCall' /= lastCall /\ lastCall'.op = "customVerificationHook") =>
          /\ lastCall'.nullifier \notin nullifierUsed
          /\ nullifierUsed' = nullifierUsed \cup {lastCall'.nullifier}]_vars

\* one identity claim has consumed nullifier 1; a second record is still open
\* and a proof for it passes with nullifier 2 but not with nullifier 1
C12_Witness ==
  \E o \in Owners :
    /\ nullifierUsed = {1}
    /\ identityToWill[o][identityHash(IdA)].claimed
    /\ identityToWill[o][identityHash(IdA)].nullifier = 1
    /\ identityToWill[o][identityHash(IdC)].beneficiaryType = "IDENTITY_VERIFIED"
    /\ ~identityToWill[o][identityHash(IdC)].claimed
    /\ customVerificationHookErr(o, identityHash(IdC), IdC, 1) = "NullifierAlreadyUsed"
    /\ customVerificationHookErr(o, identityHash(IdC), IdC, 2) = "none"

\* C13: a proof whose disclosed fields differ from the identity stored on the
\* addressed record is rejected, with IdentityMismatch when its nullifier is
\* fresh, also when the disclosed fields hash to the expected identity hash.
C13_FieldMismatchRejected ==
  \A o \in Owners, h \in IdentityHashes, id \in DisclosedIdentities, n \in Nullifiers :
    identityToWill[o][h].identity /= id =>
      /\ customVerificationHookErr(o, h, id, n) /= "none"
      /\ ~nullifierSpent(n) => customVerificationHookErr(o, h, id, n) = "IdentityMismatch"

\* an open identity record of a dead owner, and a proof with a fresh nullifier
\* whose fields differ from the stored ones but hash to the record's key
C13_Witness ==
  \E o \in Owners, n \in Nullifiers :
    /\ ~ownerStillAlive(o)
    /\ identityToWill[o][identityHash(IdA)].identity = IdA
    /\ ~identityToWill[o][identityHash(IdA)].claimed
    /\ approved["t1"][o]
    /\ ~nullifierSpent(n)
    /\ identityHash(IdB) = identityHash(IdA)
    /\ IdB /= IdA
    /\ customVerificationHookErr(o, identityHash(IdA), IdB, n) = "IdentityMismatch"
    /\ customVerificationHookErr(o, identityHash(IdA), IdA, n) = "none"

\* the Share a caller passes to delete a rule
DeleteShare == mkShare("ABSOLUTE", 0, FALSE)

\* what the claim asks of a deletion of the rule of asset a: old is the record
\* before the call, st the run of the call, err its outcome
deletedCleanly(o, a, old, st, err) ==
  /\ err = "none"
  /\ st.will.assetToShare[a] = NoShare
  /\ {st.will.assets[i] : i \in 1..Len(st.will.assets)}
       = {old.assets[i] : i \in 1..Len(old.assets)} \ {a}
  /\ st.bps[a] + storedBps(old, a) = assetTotalAllocatedBps[o][a]

\* C14: for every stored rule, ABSOLUTE or BPS, a will call that sets the
\* asset's amount to 0 succeeds, removes the asset and the rule, keeps the
\* other assets and lowers the tracked total by the rule's BPS amount.
C14_DeleteRule ==
  \A o \in Owners, a \in Assets :
    (livenessCheckDuration[o] /= 0 /\ approved[a][o]) =>
      /\ \A b \in Beneficiaries :
           beneficiaryToWill[o][b].assetToShare[a].shareType /= "NONE" =>
             deletedCleanly(o, a, beneficiaryToWill[o][b],
                            createWillRun(o, b, << a >>, << DeleteShare >>),
                            createWillErr(o, b, << a >>, << DeleteShare >>))
      /\ \A h \in IdentityHashes :
           identityToWill[o][h].assetToShare[a].shareType /= "NONE" =>
             LET id == identityToWill[o][h].identity
             IN deletedCleanly(o, a, identityToWill[o][h],
                               createIdentityWillRun(o, id, << a >>, << DeleteShare >>),
                               createIdentityWillErr(o, id, << a >>, << DeleteShare >>))

\* the batches whose two arrays have the same length
WellFormedBatches == { bt \in PairBatches : Len(bt.assets) = Len(bt.shares) }

\* C15: a will call that lists an asset without allowance fails, whatever the
\* position of the asset and whatever the shares; for a configured owner and
\* well-formed arguments the reason is NoApproval, raised for the first such
\* asset before any pair is processed.
C15_NoApprovalBeforeMutation ==
  \A o \in Owners, bt \in WellFormedBatches :
    (\E i \in 1..Len(bt.assets) : ~approved[bt.assets[i]][o]) =>
      /\ \A b \in Beneficiaries \cup {ZeroAddress} :
           /\ createWillErr(o, b, bt.assets, bt.shares) /= "none"
           /\ (b /= ZeroAddress /\ ~notConfigured(o)) =>
                createWillErr(o, b, bt.assets, bt.shares) = "NoApproval"
      /\ \A id \in IdentityInputs :
           /\ createIdentityWillErr(o, id, bt.assets, bt.shares) /= "none"
           /\ (id \in {IdA, IdB} /\ ~notConfigured(o)) =>
                createIdentityWillErr(o, id, bt.assets, bt.shares) = "NoApproval"
      /\ ~approved[firstUnapproved(o, bt.assets, 1)][o]

\* a configured owner has approved t1 only and holds a rule; a batch whose
\* first pair would be written and whose second asset lacks the allowance
C15_Witness ==
  \E o \in Owners, b \in Beneficiaries :
    /\ ~notConfigured(o)
    /\ approved["t1"][o] /\ ~approved["t2"][o]
    /\ beneficiaryToWill[o][b].assets = << "t1" >>
    /\ createWillErr(o, b, << "t1", "t2" >>,
                     << mkShare("BPS", 10000, FALSE), mkShare("ABSOLUTE", 100, FALSE) >>)
         = "NoApproval"
    /\ createWillErr(o, b, << "t1" >>, << mkShare("BPS", 10000, FALSE) >>) = "none"
    /\ firstUnapproved(o, << "t1", "t2" >>, 1) = "t2"

\* the errors a will call can raise
WillErrors ==
  {"ArrayLengthMismatch", "NotConfigured", "NoApproval", "InvalidIdentityData",
   "InvalidShareAmount", "BpsExceeded"}

\* C16: a createWill or createIdentityWill call that raises an error, for any
\* caller, key and batch of the menu and whichever pair raises it, is a step that leaves
\* the whole ledger as it was: records, lists, tracked totals, configuration,
\* snapshots and nullifiers (no step that changes the ledger is such a call).
C16_FailedWillCallChangesNothing ==
  [][ UNCHANGED ledger
      \/ \A o \in Owners, bt \in RevertBatches :
           /\ \A b \in Beneficiaries \cup {ZeroAddress} :
                ~ (createWillErr(o, b, bt.assets, bt.shares) /= "none"
                   /\ CreateWill(o, b, bt.assets, bt.shares))
           /\ \A id \in IdentityInputs :
                ~ (createIdentityWillErr(o, id, bt.assets, bt.shares) /= "none"
                   /\ CreateIdentityWill(o, id, bt.assets, bt.shares))
    ]_vars

\* an owner holds a rule on t1 that fills the cap; a call for another
\* beneficiary whose first pair alone goes through and would write a rule, and
\* whose second pair raises BpsExceeded, and one whose second pair raises
\* InvalidShareAmount
C16_Witness ==
  \E o \in Owners :
    /\ beneficiaryToWill[o]["b1"].assetToShare["t1"] = mkShare("BPS", 10000, FALSE)
    /\ createWillErr(o, "b2", << "t2" >>, << mkShare("ABSOLUTE", 100, FALSE) >>) = "none"
    /\ createWillRun(o, "b2", << "t2" >>, << mkShare("ABSOLUTE", 100, FALSE) >>).will
         /= beneficiaryToWill[o]["b2"]
    /\ createWillErr(o, "b2", << "t2", "t1" >>,
                     << mkShare("ABSOLUTE", 100, FALSE), mkShare("BPS", 5000, TRUE) >>)
         = "BpsExceeded"
    /\ createWillErr(o, "b2", << "t2", "t1" >>,
                     << mkShare("ABSOLUTE", 100, FALSE), mkShare("BPS", 10001, FALSE) >>)
         = "InvalidShareAmount"
    /\ (WillErrors \ {"NotConfigured", "NoApproval"}) \subseteq
         ({ createWillErr(o, b, bt.assets, bt.shares) :
              b \in Beneficiaries \cup {ZeroAddress}, bt \in RevertBatches }
          \cup { createIdentityWillErr(o, id, bt.assets, bt.shares) :
                   id \in IdentityInputs, bt \in RevertBatches })

\* the owner has a beneficiary record of either kind
hasRecord(o) ==
  \/ \E b \in Beneficiaries : beneficiaryToWill[o][b].beneficiaryType /= "NONE"
  \/ \E h \in IdentityHashes : identityToWill[o][h].beneficiaryType /= "NONE"
  \/ beneficiaries[o] /= << >> \/ identityHashes[o] /= << >>

\* while the owner's window is 0 every will call and checkIn fails, with
\* NotConfigured as soon as the arguments are well formed
unconfiguredRejects(o) ==
  livenessCheckDuration[o] = 0 =>
    /\ checkInErr(o) = "NotConfigured"
    /\ \A bt \in PairBatches :
         /\ \A b \in Beneficiaries \cup {ZeroAddress} :
              /\ createWillErr(o, b, bt.assets, bt.shares) /= "none"
              /\ (b /= ZeroAddress /\ bt \in WellFormedBatches) =>
                   createWillErr(o, b, bt.assets, bt.shares) = "NotConfigured"
         /\ \A id \in IdentityInputs :
              /\ createIdentityWillErr(o, id, bt.assets, bt.shares) /= "none"
              /\ (id \in {IdA, IdB} /\ bt \in WellFormedBatches) =>
                   createIdentityWillErr(o, id, bt.assets, bt.shares) = "NotConfigured"

\* C17: for an owner whose window is 0, createWill, createIdentityWill and
\* checkIn fail with NotConfigured; an owner with any beneficiary record has a
\* non-zero window; a window that is non-zero is non-zero after every step.
C17_UnconfiguredOwnerHasNoRules ==
  /\ [](\A o \in Owners :
          /\ unconfiguredRejects(o)
          /\ hasRecord(o) => livenessCheckDuration[o] /= 0)
  /\ [][ \A o \in Owners :
            livenessCheckDuration[o] /= 0 => livenessCheckDuration'[o] /= 0 ]_vars

\* an owner with window 0 has approved both assets, so that the window is the
\* only thing that stands between a well-formed call and a record
C17_Witness ==
  \E o \in Owners :
    /\ livenessCheckDuration[o] = 0
    /\ approved["t1"][o] /\ approved["t2"][o]
    /\ ~hasRecord(o)
    /\ createWillErr(o, "b1", << "t1" >>, << mkShare("ABSOLUTE", 100, FALSE) >>)
         = "NotConfigured"
    /\ createIdentityWillErr(o, IdA, << "t1" >>, << mkShare("ABSOLUTE", 100, FALSE) >>)
         = "NotConfigured"
    /\ checkInErr(o) = "NotConfigured"

\* C18: claim(owner) reverts with OwnerStillAlive exactly when
\* isOwnerAlive(owner) is true, for every caller; so a claim against an owner
\* who never configured liveness reverts with OwnerStillAlive.
C18_OwnerStillAliveIffAlive ==
  \A o \in Owners, b \in Beneficiaries :
    (claimErr(b, o) = "OwnerStillAlive") <=> isOwnerAlive(o)

\* the records, lists, BPS totals, claimed flags, snapshots and nullifiers
allocationLedger ==
  << beneficiaryToWill, identityToWill, beneficiaries, identityHashes,
     assetTotalAllocatedBps, assetBalanceSnapshot, assetSnapshotTaken, nullifierUsed >>

\* C19: configureLiveness(0) fails with InvalidDuration and changes nothing;
\* configureLiveness(d), d > 0, sets the caller's window to d and lastCheckIn
\* to now whatever the configuration was; checkIn sets lastCheckIn to now and
\* keeps the window; neither changes a record, a BPS total, a claimed flag or a
\* snapshot, nor the configuration of another owner.
C19_LivenessCallsFrame ==
  [][ \A o \in Owners :
        /\ configureLivenessErr(0) = "InvalidDuration"
        /\ \A d \in RearmDurations :
             ConfigureLiveness(o, d) =>
               /\ d /= 0 /\ configureLivenessErr(d) = "none"
               /\ livenessCheckDuration' = [livenessCheckDuration EXCEPT ![o] = d]
               /\ lastCheckIn' = [lastCheckIn EXCEPT ![o] = now]
               /\ UNCHANGED allocationLedger
        /\ CheckIn(o) =>
             /\ livenessCheckDuration[o] /= 0
             /\ lastCheckIn' = [lastCheckIn EXCEPT ![o] = now]
             /\ UNCHANGED livenessCheckDuration
             /\ UNCHANGED allocationLedger
    ]_vars

\* an owner whose beneficiary has claimed (flag set, snapshot taken) has just
\* re-armed with a different duration, after the earlier check-in time
C19_Witness ==
  \E o \in Owners :
    /\ lastCall.op = "configureLiveness" /\ lastCall.owner = o
    /\ lastCall.duration /= 0 /\ lastCall.duration /= lastCall.arg
    /\ lastCall.checkedIn < now
    /\ livenessCheckDuration[o] = lastCall.arg /\ lastCheckIn[o] = now
    /\ beneficiaryToWill[o]["b1"].assetToShare["t1"].claimed
    /\ assetSnapshotTaken[o]["t1"]
    /\ assetTotalAllocatedBps[o]["t1"] > 0

\* C20: a claimWithIdentity call that passed its checks has set the record's
\* completion flag, stored the proof's uniqueness token on the record and
\* inserted it into the registry, and has run the claim loop for the record.
C20_IdentityClaimExecutes ==
  lastCall.op = "claimWithIdentity" =>
    LET will == identityToWill[lastCall.owner][lastCall.key]
    IN /\ will.claimed
       /\ will.nullifier \in nullifierUsed
       /\ \A a \in Assets :
            will.assetToShare[a].shareType /= "NONE" =>
              \/ will.assetToShare[a].claimed
              \/ \E i \in 1..Len(lastCall.legs) : lastCall.legs[i].asset = a

\* a completed identity record rejects claimWithIdentity; the reason is
\* IdentityAlreadyClaimed once the two earlier checks pass
completedRejects(o, h) ==
  identityToWill[o][h].claimed =>
    /\ claimWithIdentityErr(o, h) /= "none"
    /\ (~ownerStillAlive(o)
        /\ identityToWill[o][h].beneficiaryType = "IDENTITY_VERIFIED") =>
         claimWithIdentityErr(o, h) = "IdentityAlreadyClaimed"

\* C21 as stated: the completion flag of an identity record never goes back to
\* false, and while it is true claimWithIdentity for that owner and hash fails
\* with IdentityAlreadyClaimed.
C21_AlwaysIdentityAlreadyClaimed ==
  [][ \A o \in Owners, h \in IdentityHashes :
        /\ identityToWill[o][h].claimed => identityToWill'[o][h].claimed
        /\ identityToWill'[o][h].claimed =>
             (claimWithIdentityErr(o, h) = "IdentityAlreadyClaimed")'
    ]_vars

\* C21 (amended): the completion flag of an identity record never goes back to
\* false under any operation, createIdentityWill updates included, and while
\* it is true every claimWithIdentity for that owner and hash fails: with
\* OwnerStillAlive while the owner's window is open again, and with
\* IdentityAlreadyClaimed otherwise.
C21_CompletedStaysCompleted ==
  [][ \A o \in Owners, h \in IdentityHashes :
        /\ identityToWill[o][h].claimed => identityToWill'[o][h].claimed
        /\ completedRejects(o, h) /\ completedRejects(o, h)'
    ]_vars

\* a completed identity record has just been updated by createIdentityWill
\* and a claimWithIdentity for it is refused with IdentityAlreadyClaimed
C21_Witness ==
  \E o \in Owners :
    /\ lastCall.op = "createIdentityWill" /\ lastCall.owner = o
    /\ lastCall.event = "IdentityWillUpdated"
    /\ lastCall.key \in IdentityHashes
    /\ identityToWill[o][lastCall.key].claimed
    /\ identityToWill[o][lastCall.key].assets /= << >>
    /\ claimWithIdentityErr(o, lastCall.key) = "IdentityAlreadyClaimed"

\* the elements of a list
listed(q) == { q[i] : i \in 1..Len(q) }

\* a list without repetition
noDuplicates(q) == \A i, j \in 1..Len(q) : q[i] = q[j] => i = j

\* C22: a createWill call that goes through emits WillCreated exactly when no
\* earlier call registered the beneficiary address under the owner (it is then
\* appended to the owner's list) and WillUpdated otherwise, also when the
\* record has been emptied; likewise for identity hashes; no address and no
\* hash is listed twice.
C22_CreatedOnceThenUpdated ==
  [][ \A o \in Owners :
        /\ noDuplicates(beneficiaries[o]) /\ noDuplicates(beneficiaries'[o])
        /\ noDuplicates(identityHashes[o]) /\ noDuplicates(identityHashes'[o])
        /\ (willOps' /= willOps /\ lastCall'.owner = o /\ lastCall'.op = "createWill") =>
             IF lastCall'.key \in listed(beneficiaries[o])
             THEN lastCall'.event = "WillUpdated" /\ UNCHANGED beneficiaries
             ELSE /\ lastCall'.event = "WillCreated"
                  /\ beneficiaries'[o] = Append(beneficiaries[o], lastCall'.key)
        /\ (willOps' /= willOps /\ lastCall'.owner = o
            /\ lastCall'.op = "createIdentityWill") =>
             IF lastCall'.key \in listed(identityHashes[o])
             THEN lastCall'.event = "IdentityWillUpdated" /\ UNCHANGED identityHashes
             ELSE /\ lastCall'.event = "IdentityWillCreated"
                  /\ identityHashes'[o] = Append(identityHashes[o], lastCall'.key)
    ]_vars

\* an update has just removed the last asset of a registered beneficiary: the
\* record is empty, still listed, and the asset can be added again
C22_Witness ==
  \E o \in Owners, b \in Beneficiaries :
    /\ lastCall.op = "createWill" /\ lastCall.owner = o /\ lastCall.key = b
    /\ lastCall.event = "WillUpdated"
    /\ beneficiaryToWill[o][b].assets = << >>
    /\ b \in listed(beneficiaries[o])
    /\ ~isNewBeneficiary(beneficiaryToWill[o][b])
    /\ createWillErr(o, b, << "t1" >>, << mkShare("ABSOLUTE", 100, FALSE) >>) = "none"

\* a claim by an address the owner never created a will for is refused, with
\* NotBeneficiary once the owner is not alive
strangerRefused(b, o) ==
  b \notin listed(beneficiaries[o]) =>
    /\ claimErr(b, o) /= "none"
    /\ ~isOwnerAlive(o) => claimErr(b, o) = "NotBeneficiary"

\* C23: claim(owner) by an address for which the owner never created a will
\* fails, with NotBeneficiary once the owner is not alive, and the call moves
\* no token, takes no snapshot and sets no flag.
C23_StrangerClaimRefused ==
  [][ \A o \in Owners, b \in Beneficiaries :
        /\ strangerRefused(b, o) /\ strangerRefused(b, o)'
        /\ (b \notin listed(beneficiaries[o]) /\ Claim(b, o)) =>
             UNCHANGED << ledger, balance, paidTotal >>
    ]_vars

\* the owner is not alive and has an approved, unclaimed rule for b1; b2 has
\* no will under that owner: b1's claim would go through, b2's is refused
C23_Witness ==
  \E o \in Owners :
    /\ ~isOwnerAlive(o)
    /\ "b2" \notin listed(beneficiaries[o])
    /\ claimErr("b2", o) = "NotBeneficiary"
    /\ claimErr("b1", o) = "none"
    /\ \E a \in Assets :
         /\ approved[a][o]
         /\ beneficiaryToWill[o]["b1"].assetToShare[a].shareType /= "NONE"
         /\ ~beneficiaryToWill[o]["b1"].assetToShare[a].claimed

\* everything the contract records for one owner, and the owner's tokens
ownerState(o) ==
  << livenessCheckDuration[o], lastCheckIn[o], beneficiaryToWill[o], identityToWill[o],
     beneficiaries[o], identityHashes[o], assetTotalAllocatedBps[o],
     assetBalanceSnapshot[o], assetSnapshotTaken[o],
     [a \in Assets |-> balance[a][o]], [a \in Assets |-> approved[a][o]] >>

\* some operation of the contract performed for owner o
operationFor(o) ==
  \/ ConfigureLiveness(o, 1)
  \/ CheckIn(o)
  \/ \E bt \in OwnersBatches : CreateWill(o, "b1", bt.assets, bt.shares)
  \/ \E bt \in OwnersBatches : CreateIdentityWill(o, IdA, bt.assets, bt.shares)
  \/ Claim("b1", o)
  \/ ClaimWithIdentity("b2", o, identityHash(IdA))
  \/ \E n \in Nullifiers : CustomVerificationHook(o, identityHash(IdA), IdA, n, "b2")

\* the outcomes of the calls concerning owner o that do not read a nullifier
outcomesFor(o) ==
  << checkInErr(o),
     [bt \in OwnersBatches |-> createWillErr(o, "b1", bt.assets, bt.shares)],
     [bt \in OwnersBatches |-> createIdentityWillErr(o, IdA, bt.assets, bt.shares)],
     [b \in Beneficiaries |-> claimErr(b, o)],
     [h \in IdentityHashes |-> claimWithIdentityErr(o, h)] >>

\* the outcomes of the proofs submitted against owner o
proofOutcomesFor(o) ==
  [n \in Nullifiers |-> customVerificationHookErr(o, identityHash(IdA), IdA, n)]

\* C24 as stated: an operation for owner A leaves everything recorded for
\* another owner B unchanged and changes the outcome of no call concerning B,
\* a proof submitted against B included (for every step and every two
\* owners: the step is no operation for A, or B is untouched).
C24_OwnersShareNothing ==
  [][ \A A, B \in Owners :
        \/ A = B
        \/ UNCHANGED vars
        \/ ~operationFor(A)
        \/ /\ ownerState(B)' = ownerState(B)
           /\ outcomesFor(B)' = outcomesFor(B)
           /\ proofOutcomesFor(B)' = proofOutcomesFor(B)
    ]_vars

\* C24 (amended): an operation for owner A leaves everything recorded for
\* another owner B unchanged and changes the outcome of no configureLiveness,
\* checkIn, createWill, createIdentityWill, claim or claimWithIdentity call
\* concerning B; the nullifier registry is shared, so a proof submitted
\* against B keeps its outcome except for the nullifier that the operation
\* for A has just consumed, which is refused from then on.
C24_OwnersShareOnlyNullifiers ==
  [][ \A A, B \in Owners :
        \/ A = B
        \/ UNCHANGED vars
        \/ ~operationFor(A)
        \/ /\ ownerState(B)' = ownerState(B)
           /\ outcomesFor(B)' = outcomesFor(B)
           /\ \A n \in Nullifiers :
                IF n \in nullifierUsed' \ nullifierUsed
                THEN proofOutcomesFor(B)'[n] = "NullifierAlreadyUsed"
                ELSE proofOutcomesFor(B)'[n] = proofOutcomesFor(B)[n]
    ]_vars

\* a proof has just completed the identity claim against one owner while the
\* other owner, not alive either, holds a direct and an identity record with
\* open rules: the same nullifier is now refused for the other owner
C24_Witness ==
  \E A, B \in Owners :
    /\ A /= B
    /\ lastCall.op = "customVerificationHook" /\ lastCall.owner = A
    /\ lastCall.nullifier \in nullifierUsed
    /\ identityToWill[A][identityHash(IdA)].claimed
    /\ ~identityToWill[B][identityHash(IdA)].claimed
    /\ identityToWill[B][identityHash(IdA)].beneficiaryType = "IDENTITY_VERIFIED"
    /\ assetTotalAllocatedBps[B]["t1"] > 0
    /\ ~isOwnerAlive(B)
    /\ proofOutcomesFor(B)[lastCall.nullifier] = "NullifierAlreadyUsed"
    /\ \E n \in Nullifiers : proofOutcomesFor(B)[n] = "none"

\* whatever rule a will call writes for b in the current state, over an old
\* rule or not and with either claimed value passed in, is stored unclaimed
writesUnclaimed(o, b) ==
  \A a \in Assets, ty \in {"ABSOLUTE", "BPS"}, amt \in {100, 5000}, c \in BOOLEAN :
    LET st == createWillRun(o, b, << a >>, << mkShare(ty, amt, c) >>)
    IN st.err = "none" => st.will.assetToShare[a] = mkShare(ty, amt, FALSE)

\* C25: a rule written by a will call, over an existing rule or for an asset
\* whose rule was deleted before, is stored with claimed = false, whatever the
\* flag of the old rule and whatever claimed value the caller passed.
C25_WrittenRuleStartsUnclaimed ==
  [][ \A o \in Owners, b \in Beneficiaries :
        /\ writesUnclaimed(o, b) /\ writesUnclaimed(o, b)'
        /\ willOps' /= willOps =>
             \A a \in Assets :
               LET old == beneficiaryToWill[o][b].assetToShare[a]
                   new == beneficiaryToWill'[o][b].assetToShare[a]
               IN (new /= old /\ new.shareType /= "NONE") => ~new.claimed
    ]_vars

\* a rule that was claimed and paid has just been deleted, and the owner can
\* write it again with claimed = true passed in
C25_Witness ==
  \E o \in Owners :
    /\ lastCall.op = "createWill" /\ lastCall.owner = o /\ lastCall.key = "b1"
    /\ beneficiaryToWill[o]["b1"].assets = << >>
    /\ paidTotal[o]["b1"]["t1"] > 0
    /\ willOps < MaxAllocOps
    /\ createWillErr(o, "b1", << "t1" >>, << mkShare("BPS", 5000, TRUE) >>) = "none"
    /\ createWillRun(o, "b1", << "t1" >>, << mkShare("BPS", 5000, TRUE) >>)
         .will.assetToShare["t1"] = mkShare("BPS", 5000, FALSE)

\* the stored balance of every (owner, asset) is what was credited to it less
\* what was released from it
vaultBalanced ==
  \A o \in Owners, a \in VaultAssets :
    /\ vaultReleased[o][a] <= vaultCredited[o][a]
    /\ vaultBalances[o][a] = vaultCredited[o][a] - vaultReleased[o][a]

\* C26: in HeirlockVault, balanceOf(owner, asset) is always the total credited
\* to (owner, asset) by depositNative, depositToken, bridgeNative and
\* bridgeToken less the total released; a release that goes through lowers
\* that balance by exactly the amount, pays the amount to the recipient, and
\* leaves the balance of every other (owner, asset) unchanged.
C26_VaultBalanceIsCreditsLessReleases ==
  [][ /\ vaultBalanced /\ vaultBalanced'
      /\ \A c \in VaultCallers, o \in Owners, a \in VaultAssets, to \in VaultRecipients,
            v \in VaultAmounts, sent \in BOOLEAN :
           Release(c, o, a, to, v, sent) =>
             /\ releaseErr(c, o, a, to, v, sent) = "none"
             /\ vaultBalances'[o][a] = vaultBalances[o][a] - v
             /\ vaultReceived'[to][a] = vaultReceived[to][a] + v
             /\ \A o2 \in Owners, a2 \in VaultAssets :
                  << o2, a2 >> /= << o, a >> => vaultBalances'[o2][a2] = vaultBalances[o2][a2]
             /\ \A x \in Accounts, a2 \in VaultAssets :
                  << x, a2 >> /= << to, a >> => vaultReceived'[x][a2] = vaultReceived[x][a2]
    ]_vars

\* part of one owner's token balance has been released to b1 while the owner
\* holds a native balance and the other owner a balance of the same token
C26_Witness ==
  /\ vaultReleased["o1"]["t1"] = 1
  /\ vaultReceived["b1"]["t1"] = 1
  /\ vaultBalances["o1"]["t1"] = 1
  /\ vaultBalances["o1"][ZeroAddress] > 0
  /\ vaultBalances["o2"]["t1"] > 0

\* the asset list of a record is a set, holds the assets with a stored rule,
\* and assetToIndex gives the position of each listed asset
assetListWellFormed(will) ==
  /\ noDuplicates(will.assets)
  /\ \A a \in Assets : a \in listed(will.assets) <=> will.assetToShare[a] /= NoShare
  /\ \A i \in 1..Len(will.assets) : will.assetToIndex[will.assets[i]] = i - 1

\* C27: after any sequence of createWill / createIdentityWill calls with any
\* share type value and any amount, the asset list of every record holds no
\* address twice, holds an asset exactly when a rule is stored for it, and
\* the stored index of each listed asset is its position in the list.
C27_AssetListWellFormed ==
  \A o \in Owners :
    /\ \A b \in Beneficiaries : assetListWellFormed(beneficiaryToWill[o][b])
    /\ \A h \in IdentityHashes : assetListWellFormed(identityToWill[o][h])

\* C28: every transfer a claim attempts, whether it goes through or fails, is
\* for min(computed amount, the owner's balance of the asset at the call), so
\* never for more than the owner holds, also when the amount comes from a
\* larger snapshot; a transfer that goes through moves exactly that much.
C28_TransferClamped ==
  [][ (lastCall'.op \in ClaimCalls /\ lastCall' /= lastCall) =>
        \A i \in 1..Len(lastCall'.legs) :
          LET leg == lastCall'.legs[i]
              held == balance[leg.asset][lastCall'.owner]
          IN /\ leg.result \in {"ok", "failed"} =>
                  /\ leg.transferAmount = Min(leg.amount, held)
                  /\ leg.transferAmount <= held
             /\ balance'[leg.asset][lastCall'.owner] =
                  IF leg.result = "ok" THEN held - leg.transferAmount ELSE held
    ]_vars

\* a BPS rule computed from a snapshot of 1000 gives 500, the owner holds 50
\* at the claim, and the 50 have been transferred
C28_Witness ==
  /\ lastCall.op = "claim"
  /\ \E i \in 1..Len(lastCall.legs) :
        LET leg == lastCall.legs[i] IN
        /\ leg.shareType = "BPS" /\ leg.result = "ok"
        /\ assetBalanceSnapshot[lastCall.owner][leg.asset] = 1000
        /\ leg.amount = 500 /\ leg.transferAmount = 50
        /\ balance[leg.asset][lastCall.owner] = 0
        /\ balance[leg.asset][lastCall.caller] = 50

\* the amount of a rule at a claim, from the snapshot if one was taken before
\* the call and from the owner's balance otherwise
amountAtClaim(o, a, share) ==
  LET base == IF assetSnapshotTaken[o][a] THEN assetBalanceSnapshot[o][a]
              ELSE balance[a][o]
  IN IF share.shareType = "ABSOLUTE" THEN share.shareAmount
     ELSE IF share.shareType = "BPS" THEN (base * share.shareAmount) \div BPS_MAX
     ELSE 0

\* C29: when the computed amount of an unclaimed rule, or that amount clamped
\* to the owner's balance, is 0, the claim marks the rule claimed without
\* attempting a transfer of the asset, and goes on with the assets after it:
\* the call has a leg for every asset of the record.
C29_ZeroAmountClosesLeg ==
  [][ \A o \in Owners, b \in Beneficiaries :
        Claim(b, o) =>
          LET will == beneficiaryToWill[o][b] IN
          /\ Len(lastCall'.legs) = Len(will.assets)
          /\ \A i \in 1..Len(will.assets) :
               LET a == will.assets[i]
                   share == will.assetToShare[a]
                   leg == lastCall'.legs[i]
               IN /\ leg.asset = a
                  /\ (~share.claimed
                      /\ Min(amountAtClaim(o, a, share), balance[a][o]) = 0) =>
                       /\ leg.result \in {"zero", "clampedZero"}
                       /\ beneficiaryToWill'[o][b].assetToShare[a].claimed
                       /\ \A x \in Accounts : balance'[a][x] = balance[a][x]
    ]_vars

\* a claim has closed a BPS rule on an emptied holding without a transfer and
\* has then paid the rule on the next asset
C29_Witness ==
  /\ lastCall.op = "claim"
  /\ Len(lastCall.legs) = 2
  /\ lastCall.legs[1].result = "zero" /\ lastCall.legs[1].shareType = "BPS"
  /\ lastCall.legs[2].result = "ok"
  /\ LET will == beneficiaryToWill[lastCall.owner][lastCall.key] IN
       /\ will.assetToShare[lastCall.legs[1].asset].claimed
       /\ will.assetToShare[lastCall.legs[2].asset].claimed
  /\ balance[lastCall.legs[1].asset][lastCall.caller] = 0
  /\ balance[lastCall.legs[2].asset][lastCall.caller] = 100

\* C30: the transfer executor reports success exactly when the token call did
\* not revert and returned either no data or a 32-byte word that is not zero;
\* a call that reverted, a returned false or any other size of returned data
\* is reported as a failure, and the claim goes through all the same: it
\* records a leg for every asset of the record, the failed rule stays
\* unclaimed and no balance of its asset moves.
C30_ExecutorReportsTokenAnswer ==
  [][ \A o \in Owners, b \in Beneficiaries :
        (Claim(b, o) /\ claimErr(b, o) = "none") =>
          LET will == beneficiaryToWill[o][b] IN
          /\ lastCall'.op = "claim"
          /\ Len(lastCall'.legs) = Len(will.assets)
          /\ \A i \in 1..Len(will.assets) :
               LET a == will.assets[i]
                   leg == lastCall'.legs[i]
                   r == leg.reply
                   attempted == /\ ~will.assetToShare[a].claimed
                                /\ Min(amountAtClaim(o, a, will.assetToShare[a]),
                                       balance[a][o]) > 0
               IN /\ attempted <=> leg.result \in {"ok", "failed"}
                  /\ attempted =>
                       /\ r = tokenCall(balance, a, o, leg.transferAmount)
                       /\ leg.result = "ok" <=>
                            (~r.reverted /\ (r.size = 0 \/ (r.size = 32 /\ r.word /= 0)))
                       /\ leg.result = "failed" <=>
                            (r.reverted \/ (r.size = 32 /\ r.word = 0)
                               \/ r.size \notin {0, 32})
                       /\ leg.result = "failed" =>
                            /\ ~beneficiaryToWill'[o][b].assetToShare[a].claimed
                            /\ \A x \in Accounts : balance'[a][x] = balance[a][x]
                       /\ leg.result = "ok" =>
                            /\ beneficiaryToWill'[o][b].assetToShare[a].claimed
                            /\ balance'[a][b] = balance[a][b] + leg.transferAmount
    ]_vars

\* one claim has met a token that returned false, which left its rule open,
\* and then a token that returned nothing, which was paid
C30_Witness ==
  /\ lastCall.op = "claim"
  /\ Len(lastCall.legs) = 2
  /\ lastCall.legs[1].result = "failed"
  /\ lastCall.legs[1].reply = [reverted |-> FALSE, size |-> 32, word |-> 0, moved |-> FALSE]
  /\ lastCall.legs[2].result = "ok"
  /\ lastCall.legs[2].reply = [reverted |-> FALSE, size |-> 0, word |-> 0, moved |-> TRUE]
  /\ LET will == beneficiaryToWill[lastCall.owner][lastCall.key] IN
       /\ ~will.assetToShare[lastCall.legs[1].asset].claimed
       /\ will.assetToShare[lastCall.legs[2].asset].claimed
  /\ balance[lastCall.legs[1].asset][lastCall.caller] = 0
  /\ balance[lastCall.legs[2].asset][lastCall.caller] = 100

\* every stored rule of kind BPS has an amount in 1..10000
storedBpsInRange ==
  \A o \in Owners, k \in Keys, a \in Assets :
    willOf(o, k).assetToShare[a].shareType = "BPS" =>
      /\ willOf(o, k).assetToShare[a].shareAmount > 0
      /\ willOf(o, k).assetToShare[a].shareAmount <= BPS_MAX

\* C31: every stored BPS rule has 0 < shareAmount <= 10000 in every reachable
\* state; a will call whose pair is BPS above 10000 fails, with
\* InvalidShareAmount once the owner is configured and the asset approved; and
\* a will call with a BPS pair of amount 0 that goes through stores no rule
\* for the asset.
C31_StoredBpsInRange ==
  /\ [](/\ storedBpsInRange
        /\ \A o \in Owners, b \in Beneficiaries, a \in Assets :
             LET err == createWillErr(o, b, << a >>, << mkShare("BPS", 10001, FALSE) >>)
                 ierr == createIdentityWillErr(o, IdA, << a >>,
                                               << mkShare("BPS", 10001, FALSE) >>)
             IN /\ err /= "none" /\ ierr /= "none"
                /\ (~notConfigured(o) /\ approved[a][o]) =>
                     (err = "InvalidShareAmount" /\ ierr = "InvalidShareAmount"))
  /\ [][ \A o \in Owners, a \in Assets :
           /\ \A b \in Beneficiaries :
                (/\ createWillErr(o, b, << a >>, << mkShare("BPS", 0, FALSE) >>) = "none"
                 /\ CreateWill(o, b, << a >>, << mkShare("BPS", 0, FALSE) >>)) =>
                  /\ beneficiaryToWill'[o][b].assetToShare[a] = NoShare
                  /\ \A i \in 1..Len(beneficiaryToWill'[o][b].assets) :
                       beneficiaryToWill'[o][b].assets[i] /= a
           /\ (/\ createIdentityWillErr(o, IdA, << a >>, << mkShare("BPS", 0, FALSE) >>) = "none"
               /\ CreateIdentityWill(o, IdA, << a >>, << mkShare("BPS", 0, FALSE) >>)) =>
                 identityToWill'[o][identityHash(IdA)].assetToShare[a] = NoShare
       ]_vars

\* a call with a BPS pair of amount 0 has just gone through for b1 and has
\* deleted the rule b1 held on t1, next to the BPS rule of 1 that b2 holds; a
\* BPS pair of 10001 is refused with InvalidShareAmount
C31_Witness ==
  \E o \in Owners :
    /\ lastCall.op = "createWill" /\ lastCall.owner = o /\ lastCall.key = "b1"
    /\ lastCall.event = "WillUpdated"
    /\ paidSinceWrite[o]["b1"]["t1"] = 0
    /\ beneficiaryToWill[o]["b1"].assets = << >>
    /\ beneficiaryToWill[o]["b1"].assetToShare["t1"] = NoShare
    /\ beneficiaryToWill[o]["b2"].assetToShare["t1"] = mkShare("BPS", 1, FALSE)
    /\ assetTotalAllocatedBps[o]["t1"] = 0
    /\ createWillErr(o, "b1", << "t1" >>, << mkShare("BPS", 10001, FALSE) >>)
         = "InvalidShareAmount"

\* the conditions of a relay that the request itself carries
relayedOnlyWhenVerified ==
  verifyCall.op = "POST" =>
    LET req == verifyCall.req
        res == verifyCall.res
    IN /\ res.relayed =>
            /\ req.fields /\ req.verify = "result"
            /\ req.isValid /\ req.isMinimumAgeValid
            /\ req.ownerAddress /= ZeroAddress
            /\ req.identity /= EmptyIdentity
            /\ req.proof \in {"0xString", "nested0xString"}
       /\ (req.fields /\ req.verify = "result"
             /\ (~req.isValid \/ ~req.isMinimumAgeValid)) =>
            /\ res.status = "error" /\ ~res.result
            /\ ~res.relayed /\ res.tx = "none"

\* C32 as stated: the endpoint relays claimWithIdentity only when both flags
\* are true, an owner address, an identity hash and a 0x proof are present and
\* the identity has not already claimed; when either flag is false it returns
\* an error result and sends no transaction.
C32_RelayOnlyWhenNotClaimed ==
  /\ relayedOnlyWhenVerified
  /\ (verifyCall.op = "POST" /\ verifyCall.res.relayed) => ~verifyCall.claimedOnChain

\* C32, amended: the same, except that the identity's claim status is what
\* the endpoint's read of hasIdentityClaimed answered: a relay is sent only
\* when that read did not answer true, and a read that throws counts as not
\* claimed; a relay also needs a configured relayer key.
C32_RelayOnlyWhenNotReportedClaimed ==
  /\ relayedOnlyWhenVerified
  /\ (verifyCall.op = "POST" /\ verifyCall.res.relayed) =>
       /\ verifyCall.req.relayerKey
       /\ verifyCall.req.lookup = "answers" => ~verifyCall.claimedOnChain

\* a request with both flags true, an owner, an identity, a 0x proof and a
\* relayer key was relayed after the read answered that the identity had not
\* claimed
C32_Witness ==
  /\ verifyCall.op = "POST"
  /\ verifyCall.res.relayed /\ verifyCall.res.status = "success"
  /\ verifyCall.req.isValid /\ verifyCall.req.isMinimumAgeValid
  /\ verifyCall.req.lookup = "answers" /\ ~verifyCall.claimedOnChain
  /\ verifyCall.req.ownerAddress \in Owners
  /\ identityToWill[verifyCall.req.ownerAddress][identityHash(verifyCall.req.identity)]
       .beneficiaryType = "IDENTITY_VERIFIED"
  /\ verifyCall.res.tx = "mined"

C34_LapsedOwnerRearms ==
  /\ [](\A o \in OneOwner :
          /\ ~isOwnerAlive(o) =>
               /\ checkInErr(o) = "none"
               /\ \A d \in RearmDurations \ {0} : configureLivenessErr(d) = "none"
               /\ \A b \in Beneficiaries :
                    LET bt == oneBatch("t1", mkShare("ABSOLUTE", 100, FALSE))
                    IN ( /\ approved["t1"][o]
                         /\ beneficiaryToWill[o][b].assetToShare["t1"].shareType = "NONE" )
                       => createWillErr(o, b, bt.assets, bt.shares) = "none"
          /\ livenessCheckDuration[o] /= 0 =>
               \A b \in Beneficiaries, h \in IdentityHashes :
                 /\ claimErr(b, o) = "OwnerStillAlive"
                      <=> now <= lastCheckIn[o] + livenessCheckDuration[o]
                 /\ claimWithIdentityErr(o, h) = "OwnerStillAlive"
                      <=> now <= lastCheckIn[o] + livenessCheckDuration[o])
  /\ [][ /\ \A o \in OneOwner :
              ( /\ ~isOwnerAlive(o)
                /\ \/ CheckIn(o)
                   \/ \E d \in RearmDurations \ {0} : ConfigureLiveness(o, d) )
              => /\ isOwnerAlive(o)'
                 /\ lastCheckIn'[o] = now
                 /\ \A b \in Beneficiaries : claimErr(b, o)' = "OwnerStillAlive"
                 /\ \A h \in IdentityHashes : claimWithIdentityErr(o, h)' = "OwnerStillAlive"
                 /\ UNCHANGED allocationLedger
         /\ now' /= now =>
              \A o \in OneOwner, b \in Beneficiaries, bt \in ClaimBatches :
                createWillErr(o, b, bt.assets, bt.shares)'
                  = createWillErr(o, b, bt.assets, bt.shares)
         /\ ( /\ lastCall' /= lastCall
              /\ lastCall'.op \in {"claim", "claimWithIdentity"} )
            => now > lastCheckIn[lastCall'.owner] + livenessCheckDuration[lastCall'.owner]
     ]_vars

\* the owner's window had lapsed and one beneficiary had been paid (rule
\* claimed, snapshot taken) when the owner checked in: the owner is alive
\* again and the other beneficiary, whose rule is still unclaimed, is refused
\* with OwnerStillAlive
C34_Witness ==
  \E o \in OneOwner :
    /\ lastCall.op = "checkIn" /\ lastCall.owner = o
    /\ lastCall.checkedIn + lastCall.duration < lastCall.time
    /\ isOwnerAlive(o) /\ lastCheckIn[o] = now
    /\ beneficiaryToWill[o]["b1"].assetToShare["t1"].claimed
    /\ balance["t1"]["b1"] > 0
    /\ assetSnapshotTaken[o]["t1"]
    /\ beneficiaryToWill[o]["b2"].assetToShare["t1"].shareType /= "NONE"
    /\ ~beneficiaryToWill[o]["b2"].assetToShare["t1"].claimed
    /\ claimErr("b2", o) = "OwnerStillAlive"

\* C35: once an identity claim has completed a record while the transfer of
\* one of its rules failed (the record's flag is set, the rule is unclaimed),
\* no later identity claim for the same owner and identity hash goes through:
\* claimWithIdentity and the proof's execution are both refused, so the
\* rule is never paid on the identity path.
C35_NoIdentityRetry ==
  [][ \A o \in OneOwner, h \in IdentityHashes :
        ( /\ identityToWill[o][h].claimed
          /\ \E a \in Assets :
               /\ identityToWill[o][h].assetToShare[a].shareType /= "NONE"
               /\ ~identityToWill[o][h].assetToShare[a].claimed )
        => /\ claimWithIdentityErr(o, h) \in {"IdentityAlreadyClaimed", "OwnerStillAlive"}
           /\ ~( /\ lastCall' /= lastCall
                 /\ lastCall'.op \in {"claimWithIdentity", "customVerificationHook"}
                 /\ lastCall'.owner = o /\ lastCall'.key = h )
    ]_vars

\* the allocation rules an owner has stored: the records' kinds, asset lists,
\* share types and amounts, and the tracked totals
allocationRules(o) ==
  << [k \in Keys |->
        << willOf(o, k).beneficiaryType, willOf(o, k).assets,
           [a \in Assets |-> << willOf(o, k).assetToShare[a].shareType,
                                willOf(o, k).assetToShare[a].shareAmount >>] >>],
     beneficiaries[o], identityHashes[o], assetTotalAllocatedBps[o] >>

\* C36: an owner's liveness window and check-in time change only in a
\* configureLiveness or checkIn call made by that owner, and the owner's
\* allocation rules only in a createWill or createIdentityWill call made by
\* that owner; a claim call goes through only for a caller for whom the
\* addressed owner stored a will, and tokens leave an owner's balance only in
\* such a claim, all of them going to the caller.
C36_OnlyOwnerWritesOnlyCallerPaid ==
  [][ /\ \A o \in Owners :
           /\ ( \/ livenessCheckDuration'[o] /= livenessCheckDuration[o]
                \/ lastCheckIn'[o] /= lastCheckIn[o] )
              => /\ lastCall'.op \in {"configureLiveness", "checkIn"}
                 /\ lastCall'.caller = o /\ lastCall'.owner = o
           /\ allocationRules(o)' /= allocationRules(o)
              => /\ lastCall'.op \in {"createWill", "createIdentityWill"}
                 /\ lastCall'.caller = o /\ lastCall'.owner = o
           /\ \A a \in Assets :
                balance'[a][o] /= balance[a][o]
                => /\ lastCall'.op = "claim" /\ lastCall'.owner = o
                   /\ lastCall'.caller \in Beneficiaries
                   /\ balance'[a][lastCall'.caller] - balance[a][lastCall'.caller]
                        = balance[a][o] - balance'[a][o]
                   /\ balance'[a][o] < balance[a][o]
                   /\ \A x \in Accounts \ {o, lastCall'.caller} :
                        balance'[a][x] = balance[a][x]
      /\ ( lastCall' /= lastCall /\ lastCall'.op = "claim" )
         => /\ beneficiaryToWill[lastCall'.owner][lastCall'.caller].beneficiaryType
                 = "ADDRESS_ONLY"
            /\ beneficiaryToWill[lastCall'.owner][lastCall'.caller].beneficiary
                 = lastCall'.caller
            /\ lastCall'.caller \in listed(beneficiaries[lastCall'.owner])
    ]_vars

\* one owner wrote a rule for b1 only and the other for b2 only; b1 has just
\* claimed from the first and been paid, while b2, with no will there, is
\* refused by the first owner and not yet paid by anyone
C36_Witness ==
  /\ lastCall.op = "claim" /\ lastCall.caller = "b1" /\ lastCall.owner = "o1"
  /\ balance["t1"]["b1"] = 100 /\ balance["t1"]["o1"] = 900
  /\ balance["t1"]["b2"] = 0 /\ balance["t1"]["o2"] = 1000
  /\ beneficiaryToWill["o1"]["b2"].beneficiaryType = "NONE"
  /\ beneficiaryToWill["o2"]["b2"].beneficiaryType = "ADDRESS_ONLY"
  /\ beneficiaryToWill["o2"]["b1"].beneficiaryType = "NONE"
  /\ ~isOwnerAlive("o1") /\ claimErr("b2", "o1") = "NotBeneficiary"

\* the callers of the vault that are neither its heirlock nor its executor
NonControllers == { c \in VaultCallers : ~onlyController(c) }

\* C37 as stated: release, bridgeNative and bridgeToken by a caller that is
\* neither controller fail with NotController, and every release of more than
\* the stored balance fails, with InsufficientBalance when a controller calls.
C37_ExcessReleaseInsufficientBalance ==
  \A c \in VaultCallers, o \in Owners, a \in VaultAssets, to \in VaultRecipients,
     v \in VaultAmounts, sent \in BOOLEAN :
    /\ c \in NonControllers =>
         /\ releaseErr(c, o, a, to, v, sent) = "NotController"
         /\ bridgeNativeErr(c, o, v) = "NotController"
         /\ bridgeTokenErr(c, o, a, v) = "NotController"
    /\ (c \notin NonControllers /\ v > vaultBalances[o][a]) =>
         releaseErr(c, o, a, to, v, sent) = "InsufficientBalance"

\* C37, amended: release, bridgeNative and bridgeToken by a caller that is
\* neither controller fail with NotController whatever their arguments; a
\* controller's release of more than the stored balance fails with
\* InsufficientBalance when owner and recipient are non-zero addresses and
\* with InvalidAddress otherwise; a balance is lowered only by a controller's
\* release of at most that balance, so no balance goes below zero.
C37_VaultControllersOnly ==
  /\ [](\A c \in VaultCallers, o \in VaultOwners, a \in VaultAssets, to \in VaultRecipients,
           v \in VaultAmounts, sent \in BOOLEAN :
          /\ c \in NonControllers =>
               /\ releaseErr(c, o, a, to, v, sent) = "NotController"
               /\ bridgeNativeErr(c, o, v) = "NotController"
               /\ bridgeTokenErr(c, o, a, v) = "NotController"
          /\ (c \notin NonControllers /\ o \in Owners /\ v > vaultBalances[o][a]) =>
               releaseErr(c, o, a, to, v, sent) =
                 IF to = ZeroAddress THEN "InvalidAddress" ELSE "InsufficientBalance"
          /\ o \in Owners => vaultBalances[o][a] >= 0)
  /\ [][ \A o \in Owners, a \in VaultAssets :
           vaultBalances'[o][a] < vaultBalances[o][a] =>
             /\ vaultBalances'[o][a] >= 0
             /\ \E c \in VaultCallers \ NonControllers, to \in VaultRecipients \ {ZeroAddress},
                   v \in VaultAmounts :
                  /\ v <= vaultBalances[o][a]
                  /\ Release(c, o, a, to, v, TRUE)
             /\ ~ \E c \in NonControllers, to \in VaultRecipients, v \in VaultAmounts,
                     sent \in BOOLEAN :
                  releaseErr(c, o, a, to, v, sent) = "none"
    ]_vars

\* an owner's token balance of 2 has been released down to 0 by two releases
\* of 1: a controller's further release of 1 is refused with
\* InsufficientBalance and anybody else's with NotController
C37_Witness ==
  /\ vaultCredited["o1"]["t1"] = 2 /\ vaultReleased["o1"]["t1"] = 2
  /\ vaultBalances["o1"]["t1"] = 0
  /\ vaultReceived["b1"]["t1"] = 2
  /\ releaseErr("executor", "o1", "t1", "b1", 1, TRUE) = "InsufficientBalance"
  /\ releaseErr("stranger", "o1", "t1", "b1", 1, TRUE) = "NotController"
  /\ bridgeTokenErr("stranger", "o1", "t1", 1) = "NotController"

====
